---------------------------- MODULE Spec2Model ----------------------------
(***************************************************************************)
(* The slotlist backend: the permission tree engine (api/auth.py), the     *)
(* mission visibility resolver (api/permissions.py) and the handlers of    *)
(* the mission router (api/routers/mission.py) that read missions, update  *)
(* them, assign slots and renumber slot groups and slots, and the          *)
(* community gate (api/auth.py) with the application and membership        *)
(* handlers of the community router (api/routers/community.py).            *)
(*                                                                         *)
(* A Python string is a sequence of atoms: an atom is either the           *)
(* separator "." or a word that holds no separator.  str.lower() acts on   *)
(* every atom, str.split('.') cuts the sequence at the separators, and an  *)
(* f-string is the concatenation of its parts.  A dict is the sequence of  *)
(* its items in insertion order, as CPython iterates it.                   *)
(***************************************************************************)
EXTENDS Integers, Sequences, FiniteSets, TLC

VARIABLES
    held,        \* SpecPerm: the permission strings of one user, in row order
    asked,       \* SpecPerm: the target permission of the last check
    askedAny,    \* SpecPerm: the alternatives of the last check with a list
    granted,     \* SpecPerm: the answer of the last check
    community,   \* User.community of every user (None: no community)
    permissions, \* the Permission rows of every user, in row order
    visibility,  \* Mission.visibility of every mission
    assignee,    \* MissionSlot.assignee of every slot (None: unassigned)
    resp,        \* the last request of the client and the response to it
    slotGroups,  \* SpecOrder: the MissionSlotGroup rows
    slots,       \* SpecOrder: the MissionSlot rows
    procs,       \* SpecRace: where each worker is in its create request
    applications, \* SpecGate: the CommunityApplication rows
    issued,      \* SpecGate: the token each client holds (Absent: none)
    gateResp,    \* SpecGate: the last request to a gated endpoint, answered
    now,         \* the clock of the server
    decoded,     \* SpecToken: the last call of decode_jwt and its result
    registrations \* SpecSlot: the MissionSlotRegistration rows

vars == <<held, asked, askedAny, granted, community, permissions, visibility, assignee,
          resp, slotGroups, slots, procs, applications, issued, gateResp,
          now, decoded, registrations>>

permVars == <<held, asked, askedAny, granted>>
visVars == <<community, permissions, visibility, assignee, resp>>
orderVars == <<slotGroups, slots, procs>>
gateVars == <<applications, issued, gateResp>>
tokenVars == <<now, decoded>>

\* Python's None where a string is expected; an optional record is the empty
\* sequence (None) or the sequence of that one record.
None == "None"
Absent == <<>>
Some(x) == <<x>>

-----------------------------------------------------------------------------
(* Strings *)

Dot == "."

\* str.lower() on one atom: the mixed-case words of the model and their
\* lower-case forms; every other atom is lower-case already.
LowerAtom(a) ==
    CASE a = "Mission" -> "mission"
      [] a = "Editor" -> "editor"
      [] a = "Foo" -> "foo"
      [] a = "Admin" -> "admin"
      [] OTHER -> a

\* str.lower()
lower(s) == [i \in DOMAIN s |-> LowerAtom(s[i])]

RECURSIVE SplitAcc(_, _, _)
SplitAcc(s, cur, acc) ==
    IF s = <<>> THEN Append(acc, cur)
    ELSE IF Head(s) = Dot THEN SplitAcc(Tail(s), <<>>, Append(acc, cur))
    ELSE SplitAcc(Tail(s), Append(cur, Head(s)), acc)

\* str.split('.'): the segments between the separators; a segment is the
\* sequence of the atoms it is made of ('' is the empty segment).
split(s) == SplitAcc(s, <<>>, <<>>)

\* str.startswith(prefix)
startswith(s, prefix) ==
    /\ Len(s) >= Len(prefix)
    /\ SubSeq(s, 1, Len(prefix)) = prefix

\* str.endswith(suffix)
endswith(s, suffix) ==
    /\ Len(s) >= Len(suffix)
    /\ SubSeq(s, Len(s) - Len(suffix) + 1, Len(s)) = suffix

\* 'a.b.c' written as the words a, b, c
RECURSIVE Dotted(_)
Dotted(words) ==
    IF Len(words) = 0 THEN <<>>
    ELSE IF Len(words) = 1 THEN <<words[1]>>
    ELSE <<words[1], Dot>> \o Dotted(Tail(words))

WILDCARD == <<"*">>
ADMIN_SUPERADMIN == Dotted(<<"admin", "superadmin">>)
ADMIN_MISSION == Dotted(<<"admin", "mission">>)

-----------------------------------------------------------------------------
(* Permission tree engine: api/auth.py *)

\* A dict of the tree: the sequence of its items [key, sub] in insertion order.
HasKey(tree, k) == \E i \in DOMAIN tree : tree[i].key = k

KeyIndex(tree, k) == CHOOSE i \in DOMAIN tree : tree[i].key = k

\* The inner loop of parse_permissions: walk down `parts`, creating the
\* missing keys at the end of each dict.
RECURSIVE InsertParts(_, _)
InsertParts(tree, parts) ==
    IF parts = <<>> THEN tree
    ELSE IF HasKey(tree, Head(parts))
         THEN LET i == KeyIndex(tree, Head(parts))
              IN  [tree EXCEPT ![i].sub = InsertParts(@, Tail(parts))]
         ELSE Append(tree, [key |-> Head(parts),
                            sub |-> InsertParts(<<>>, Tail(parts))])

RECURSIVE ParseFrom(_, _)
ParseFrom(parsed, perms) ==
    IF perms = <<>> THEN parsed
    ELSE ParseFrom(InsertParts(parsed, split(lower(Head(perms)))), Tail(perms))

parse_permissions(perms) == ParseFrom(<<>>, perms)

RECURSIVE find_permission(_, _)

\* The loop of find_permission taking a key for the last part of the target
\* only when nothing is below it.
RECURSIVE ScanItemsLeafOnly(_, _, _, _)
ScanItemsLeafOnly(tree, i, perm_part, remaining_parts) ==
    IF i > Len(tree) THEN FALSE
    ELSE IF tree[i].key = WILDCARD THEN TRUE
    ELSE IF tree[i].key = perm_part
         THEN IF Len(remaining_parts) = 0 THEN tree[i].sub = <<>>
              ELSE find_permission(tree[i].sub, remaining_parts)
    ELSE ScanItemsLeafOnly(tree, i + 1, perm_part, remaining_parts)

\* The loop of find_permission over permission_tree.items(), from item i:
\* the first item whose key is '*' or the wanted part decides.
RECURSIVE ScanItems(_, _, _, _)
ScanItems(tree, i, perm_part, remaining_parts) ==
    IF i > Len(tree) THEN FALSE
    ELSE IF tree[i].key = WILDCARD THEN TRUE
    ELSE IF tree[i].key = perm_part
         THEN IF Len(remaining_parts) = 0 THEN TRUE
              ELSE find_permission(tree[i].sub, remaining_parts)
    ELSE ScanItems(tree, i + 1, perm_part, remaining_parts)

\* find_permission with the target already a list of parts
find_permission(permission_tree, target_permission) ==
    IF Len(permission_tree) = 0 THEN FALSE
    ELSE IF Len(target_permission) = 0 THEN TRUE
    ELSE ScanItems(permission_tree, 1, Head(target_permission),
                   Tail(target_permission))

\* find_permission with a string target: lower-cased and split first
find_permission_str(permission_tree, target_permission) ==
    find_permission(permission_tree, split(lower(target_permission)))

\* A target of has_permission is one string or a list of strings.
Str(s) == [isList |-> FALSE, val |-> s]
List(l) == [isList |-> TRUE, val |-> l]

\* has_permission without the check for global admin permissions
has_permission_no_shortcut(perms, target_permissions) ==
    IF Len(perms) = 0 THEN FALSE
    ELSE LET parsed_permissions == parse_permissions(perms)
         IN  IF target_permissions.isList
             THEN \E j \in DOMAIN target_permissions.val :
                     find_permission_str(parsed_permissions,
                                         target_permissions.val[j])
             ELSE find_permission_str(parsed_permissions,
                                      target_permissions.val)

has_permission(perms, target_permissions) ==
    IF Len(perms) = 0 THEN FALSE
    ELSE LET parsed_permissions == parse_permissions(perms)
         IN  IF \/ HasKey(parsed_permissions, WILDCARD)
                \/ find_permission_str(parsed_permissions, ADMIN_SUPERADMIN)
             THEN TRUE
             ELSE IF target_permissions.isList
                  THEN \E j \in DOMAIN target_permissions.val :
                          find_permission_str(parsed_permissions,
                                              target_permissions.val[j])
                  ELSE find_permission_str(parsed_permissions,
                                           target_permissions.val)

-----------------------------------------------------------------------------
(* The permission check on its own: SpecPerm *)

\* The words permission strings are made of.
PermStrings ==
    { Dotted(<<"admin", "mission">>),
      Dotted(<<"admin", "superadmin">>),
      Dotted(<<"*">>),
      Dotted(<<"mission", "*">>),
      Dotted(<<"mission", "foo", "bar">>),
      Dotted(<<"mission", "foo", "editor">>),
      Dotted(<<"Mission", "Foo", "Editor">>),
      Dotted(<<"mission", "foo">>) }

Targets ==
    { Dotted(<<"admin", "mission">>),
      Dotted(<<"mission", "foo", "editor">>),
      Dotted(<<"mission", "foo", "baz">>),
      Dotted(<<"mission", "foo">>),
      Dotted(<<"mission", "bar", "editor">>),
      Dotted(<<"Mission", "Foo", "Bar">>) }

MaxHeld == 2

\* Every list of at most n permission strings
ListsUpTo(n) == UNION { [1..k -> PermStrings] : k \in 0..n }

InitPerm ==
    /\ held \in ListsUpTo(MaxHeld)
    /\ asked = None
    /\ askedAny = <<>>
    /\ granted = FALSE
    /\ community = <<>> /\ permissions = <<>> /\ visibility = <<>>
    /\ assignee = <<>> /\ resp = <<>>
    /\ slotGroups = {} /\ slots = {} /\ procs = <<>>
    /\ applications = {} /\ issued = <<>> /\ gateResp = <<>>
    /\ now = 0 /\ decoded = <<>> /\ registrations = {}

\* A caller asks has_permission(held, target) with a single string.
CheckPermission(target) ==
    /\ asked' = target
    /\ askedAny' = <<>>
    /\ granted' = has_permission(held, Str(target))
    /\ UNCHANGED held

\* The lists of alternatives a caller asks for
MaxAlternatives == 2
AlternativeTargets ==
    { Dotted(<<"admin", "mission">>),
      Dotted(<<"mission", "foo", "baz">>),
      Dotted(<<"mission", "bar", "editor">>) }
TargetLists == UNION { [1..k -> AlternativeTargets] : k \in 0..MaxAlternatives }

\* A caller asks has_permission(held, targets) with a list of alternatives.
CheckAnyPermission(targets) ==
    /\ asked' = None
    /\ askedAny' = targets
    /\ granted' = has_permission(held, List(targets))
    /\ UNCHANGED held

CheckOne ==
    /\ \E target \in Targets : CheckPermission(target)
    /\ UNCHANGED <<visVars, orderVars, gateVars, tokenVars, registrations>>

CheckAny ==
    /\ \E targets \in TargetLists : CheckAnyPermission(targets)
    /\ UNCHANGED <<visVars, orderVars, gateVars, tokenVars, registrations>>

NextPerm == CheckOne \/ CheckAny

SpecPerm == InitPerm /\ [][NextPerm]_vars

-----------------------------------------------------------------------------
(* The data of the visibility model *)

Users == {"u1", "u2"}
Communities == {"ca", "cb"}
Missions == {"m1", "m2"}
Slots == {"s1", "s2", "s3", "s4"}
Visibilities == {"public", "community", "private", "hidden"}

\* Mission.slug, Mission.creator and Mission.community: set when the mission
\* is created, changed by no handler.
Slug == [m \in Missions |-> IF m = "m1" THEN <<"foo">> ELSE <<"bar">>]
Creator == [m \in Missions |-> IF m = "m1" THEN "u1" ELSE "u2"]
MissionCommunity == [m \in Missions |-> IF m = "m1" THEN "ca" ELSE None]

\* MissionSlot.slot_group.mission, MissionSlot.restricted_community and
\* MissionSlot.blocked of the four slots: s4 was created blocked.
SlotMission == [s \in Slots |-> IF s = "s3" THEN "m2" ELSE "m1"]
RestrictedCommunity == [s \in Slots |-> IF s = "s2" THEN "ca" ELSE None]
SlotBlocked == [s \in Slots |-> s = "s4"]

\* The mission a slug names (get_object_or_404(Mission, slug=slug))
MissionOfSlug(slug) == CHOOSE m \in Missions : Slug[m] = slug

-----------------------------------------------------------------------------
(* Tokens: api/auth.py *)

\* settings.JWT_SECRET, JWT_ALGORITHM, JWT_ISSUER, JWT_AUDIENCE and
\* JWT_EXPIRES_IN (the lifetime of a token, in ticks of the clock)
JWT_SECRET == "secret"
JWT_ALGORITHM == "HS256"
JWT_ISSUER == "slotlist"
JWT_AUDIENCE == "slotlist-clients"
JWT_EXPIRES_IN == 2

\* A token is what jwt.encode signs: the key and the algorithm of the
\* signature, and the claims.  A string that is no token has neither.

\* generate_jwt: the claims are the user's uid, community and permission rows
\* at the time of signing, the time of signing and the expiry.
generate_jwt(user) ==
    [key |-> JWT_SECRET,
     alg |-> JWT_ALGORITHM,
     payload |->
        [user |-> [uid |-> user,
                   community |-> IF community[user] # None
                                 THEN Some([uid |-> community[user]])
                                 ELSE Absent],
         permissions |-> permissions[user],
         iat |-> now,
         exp |-> now + JWT_EXPIRES_IN,
         iss |-> JWT_ISSUER,
         aud |-> JWT_AUDIENCE,
         sub |-> user]]

\* A token signed with another key, naming the creator of m1 with every right.
ForgedToken ==
    [key |-> "other",
     alg |-> JWT_ALGORITHM,
     payload |-> [user |-> [uid |-> "u1", community |-> Some([uid |-> "ca"])],
                  permissions |-> <<Dotted(<<"*">>)>>,
                  iat |-> 0,
                  exp |-> JWT_EXPIRES_IN,
                  iss |-> JWT_ISSUER,
                  aud |-> JWT_AUDIENCE,
                  sub |-> "u1"]]

\* decode_jwt without the verification of the signature
decode_jwt_unverified(token) == Some(token.payload)

\* decode_jwt answering with the permission rows of the user as they are now
decode_jwt_live_permissions(token) ==
    IF "key" \notin DOMAIN token THEN Absent
    ELSE IF token.alg # JWT_ALGORITHM THEN Absent
    ELSE IF token.key # JWT_SECRET THEN Absent
    ELSE IF "exp" \in DOMAIN token.payload /\ token.payload.exp <= now THEN Absent
    ELSE IF "iss" \notin DOMAIN token.payload THEN Absent
    ELSE IF token.payload.iss # JWT_ISSUER THEN Absent
    ELSE IF "aud" \notin DOMAIN token.payload THEN Absent
    ELSE IF token.payload.aud # JWT_AUDIENCE THEN Absent
    ELSE Some([token.payload EXCEPT
                  !.permissions = permissions[token.payload.sub]])

\* decode_jwt: the payload of a token that verifies, None of any other.
\* jwt.decode raises a subclass of InvalidTokenError for a string that is no
\* token, for a signature that does not verify under JWT_SECRET, for an
\* algorithm other than JWT_ALGORITHM, for an exp claim that has passed
\* (ExpiredSignatureError), and for an iss or aud claim that is missing or is
\* not the configured one; it asks for no exp claim, and checks the one it
\* finds.
decode_jwt(token) ==
    IF "key" \notin DOMAIN token THEN Absent
    ELSE IF token.alg # JWT_ALGORITHM THEN Absent
    ELSE IF token.key # JWT_SECRET THEN Absent
    ELSE IF "exp" \in DOMAIN token.payload /\ token.payload.exp <= now THEN Absent
    ELSE IF "iss" \notin DOMAIN token.payload THEN Absent
    ELSE IF token.payload.iss # JWT_ISSUER THEN Absent
    ELSE IF "aud" \notin DOMAIN token.payload THEN Absent
    ELSE IF token.payload.aud # JWT_AUDIENCE THEN Absent
    ELSE Some(token.payload)

\* What a client can send in the Authorization header: nothing, the token of
\* a user, or a token that does not verify.
Credentials == {Absent, Some(ForgedToken)} \cup {Some(generate_jwt(u)) : u \in Users}

\* JWTAuth.authenticate: request.auth of an endpoint that asks for a token
\* (Absent: the request is answered 401 and the handler does not run).
JWTAuth(authorization) ==
    IF authorization = Absent THEN Absent ELSE decode_jwt(authorization[1])

\* The request of an endpoint declared auth=None: request.auth is not set.
OpenRequest(authorization) == [auth |-> Absent, authorization |-> authorization]

\* The request of an endpoint behind JWTAuth.
AuthRequest(authorization) ==
    [auth |-> JWTAuth(authorization), authorization |-> authorization]

-----------------------------------------------------------------------------
(* Mission visibility: api/permissions.py *)

\* The editor permission without its role: f'mission.{mission.slug}'
EditorPermissionNoRole(mission) == <<"mission", Dot>> \o Slug[mission]

\* f'mission.{mission.slug}.editor'
EditorPermission(mission) == <<"mission", Dot>> \o Slug[mission] \o <<Dot, "editor">>

\* The claims a request carries: request.auth when it is set, else the
\* decoded Authorization header (the first lines of CanViewMission.__call__
\* and of get_user_info_from_request).
RequestPayload(request) ==
    IF request.auth # Absent THEN request.auth
    ELSE IF request.authorization # Absent
         THEN decode_jwt(request.authorization[1])
         ELSE Absent

\* (current_user_uid, current_user_community_uid, permissions)
get_user_info_from_request(request) ==
    LET payload == RequestPayload(request)
    IN  IF payload = Absent
        THEN [user_uid |-> None, community_uid |-> None, permissions |-> <<>>]
        ELSE [user_uid |-> payload[1].user.uid,
              community_uid |-> IF payload[1].user.community # Absent
                                THEN payload[1].user.community[1].uid
                                ELSE None,
              permissions |-> payload[1].permissions]

\* The slot query without its mission: a slot of any mission counts.
AssignedAnywhere(mission, user_uid) ==
    \E s \in Slots : assignee[s] = user_uid

\* MissionSlot.objects.filter(slot_group__mission=mission,
\*                            assignee__uid=user_uid).exists()
AssignedInMission(mission, user_uid) ==
    \E s \in Slots : SlotMission[s] = mission /\ assignee[s] = user_uid

\* The community rule without the check that both sides have a community.
CommunityRuleUnchecked(mission, current_user_community_uid) ==
    MissionCommunity[mission] = current_user_community_uid

\* The branch of CanViewMission.__call__ for visibility 'community'
CommunityRule(mission, current_user_community_uid) ==
    IF MissionCommunity[mission] # None /\ current_user_community_uid # None
    THEN MissionCommunity[mission] = current_user_community_uid
    ELSE FALSE

\* CanViewMission.__call__
CanViewMission(request, mission) ==
    LET info == get_user_info_from_request(request)
        current_user_uid == info.user_uid
        current_user_community_uid == info.community_uid
    IN  IF visibility[mission] = "public" THEN TRUE
        ELSE IF current_user_uid = None THEN FALSE
        ELSE IF Creator[mission] = current_user_uid THEN TRUE
        ELSE IF has_permission(info.permissions, Str(ADMIN_MISSION)) THEN TRUE
        ELSE IF has_permission(info.permissions, Str(EditorPermission(mission)))
             THEN TRUE
        ELSE IF visibility[mission] = "community"
             THEN CommunityRule(mission, current_user_community_uid)
        ELSE IF visibility[mission] = "hidden" THEN FALSE
        ELSE IF visibility[mission] = "private"
             THEN AssignedInMission(mission, current_user_uid)
        ELSE FALSE

can_view_mission(mission, request) == CanViewMission(request, mission)

filter_missions_by_visibility(missions, request) ==
    {mission \in missions : can_view_mission(mission, request)}

\* The loop of visible_to_user over the permission strings: the second
\* segment of each string that starts with 'mission.' and ends with '.editor'.
editor_slugs(perms) ==
    { split(perms[i])[2] :
        i \in { j \in DOMAIN perms :
                   /\ startswith(perms[j], <<"mission", Dot>>)
                   /\ endswith(perms[j], <<Dot, "editor">>) } }

\* MissionVisibilityQuerySet.visible_to_user: the missions the query selects.
visible_to_user(user_uid, community_uid, perms) ==
    IF user_uid # None /\ has_permission(perms, Str(ADMIN_MISSION))
    THEN Missions
    ELSE { m \in Missions :
             \/ visibility[m] = "public"
             \/ /\ user_uid # None
                /\ \/ Creator[m] = user_uid
                   \/ /\ community_uid # None
                      /\ visibility[m] = "community"
                      /\ MissionCommunity[m] = community_uid
                   \/ /\ visibility[m] = "private"
                      /\ AssignedInMission(m, user_uid)
                   \/ Slug[m] \in editor_slugs(perms) }

-----------------------------------------------------------------------------
(* The mission router: api/routers/mission.py *)

\* The rows the handlers of this section read and write.
dbVars == <<community, permissions, visibility, assignee>>

\* The slugs a request can name: those of the missions and one of no mission.
SlugArgs == {Slug[m] : m \in Missions} \cup {<<"nope">>}

SlugExists(slug) == \E m \in Missions : Slug[m] = slug

\* The response to a request: the handler, the Authorization header and the
\* mission of the request, the status, and the missions whose data the body
\* discloses.
Response(op, authorization, mission, status, disclosed) ==
    [op |-> op, authorization |-> authorization, mission |-> mission,
     status |-> status, missions |-> disclosed]

NoResponse == Response(None, Absent, None, 0, {})

\* list_missions (auth=None).  Every mission of the model is still to come and
\* fits the first page, so the date filter and the pagination keep them all.
list_missions(authorization) ==
    Response("list_missions", authorization, None, 200, Missions)

\* get_mission (auth=None)
get_mission(authorization, slug) ==
    IF ~SlugExists(slug)
    THEN Response("get_mission", authorization, None, 404, {})
    ELSE Response("get_mission", authorization, MissionOfSlug(slug), 200,
                  {MissionOfSlug(slug)})

\* get_mission_slots (auth=None)
get_mission_slots(authorization, slug) ==
    IF ~SlugExists(slug)
    THEN Response("get_mission_slots", authorization, None, 404, {})
    ELSE Response("get_mission_slots", authorization, MissionOfSlug(slug), 200,
                  {MissionOfSlug(slug)})

\* is_creator and is_admin of the handlers that change a mission
is_creator(auth, mission) == Creator[mission] = auth[1].user.uid
is_admin(auth) == has_permission(auth[1].permissions, Str(ADMIN_MISSION))

\* update_mission letting the editors of the mission in as well
update_mission_status_editor(auth, slug) ==
    IF auth = Absent THEN 401
    ELSE IF ~SlugExists(slug) THEN 404
    ELSE IF /\ ~is_creator(auth, MissionOfSlug(slug)) /\ ~is_admin(auth)
            /\ ~has_permission(auth[1].permissions,
                               Str(EditorPermission(MissionOfSlug(slug))))
         THEN 403
    ELSE 200

\* The status update_mission answers with.
update_mission_status(auth, slug) ==
    IF auth = Absent THEN 401
    ELSE IF ~SlugExists(slug) THEN 404
    ELSE IF ~is_creator(auth, MissionOfSlug(slug)) /\ ~is_admin(auth) THEN 403
    ELSE 200

\* update_mission (behind JWTAuth): what it writes.  payload_visibility is
\* payload.visibility, None when the request leaves the field out.
update_mission(authorization, slug, payload_visibility) ==
    LET status == update_mission_status(JWTAuth(authorization), slug)
    IN  /\ visibility' = IF status = 200 /\ payload_visibility # None
                         THEN [visibility EXCEPT ![MissionOfSlug(slug)] =
                                                      payload_visibility]
                         ELSE visibility
        /\ UNCHANGED <<community, permissions, assignee>>

\* update_mission: what it answers.
update_mission_response(authorization, slug) ==
    LET status == update_mission_status(JWTAuth(authorization), slug)
        mission == IF SlugExists(slug) THEN MissionOfSlug(slug) ELSE None
    IN  Response("update_mission", authorization, mission, status,
                 IF status = 200 THEN {mission} ELSE {})

\* The status assign_slot answers with.
assign_slot_status(auth, slug, slot_uid, userUid, force) ==
    IF auth = Absent THEN 401
    ELSE IF ~SlugExists(slug) THEN 404
    ELSE IF SlotMission[slot_uid] # MissionOfSlug(slug) THEN 404
    ELSE IF assignee[slot_uid] # None /\ ~force THEN 400
    ELSE IF SlotBlocked[slot_uid] THEN 400
    ELSE LET mission == MissionOfSlug(slug)
             is_self_assignment == userUid = auth[1].user.uid
         IN  IF /\ RestrictedCommunity[slot_uid] # None
                /\ community[userUid] # RestrictedCommunity[slot_uid]
                /\ ~is_creator(auth, mission) /\ ~is_admin(auth)
             THEN 403
             ELSE IF /\ ~is_self_assignment
                     /\ ~is_creator(auth, mission) /\ ~is_admin(auth)
             THEN 403
             ELSE 200

\* assign_slot (behind JWTAuth): what it writes.
assign_slot(authorization, slug, slot_uid, userUid, force) ==
    LET status == assign_slot_status(JWTAuth(authorization), slug, slot_uid,
                                     userUid, force)
    IN  /\ assignee' = IF status = 200
                       THEN [assignee EXCEPT ![slot_uid] = userUid]
                       ELSE assignee
        /\ UNCHANGED <<community, permissions, visibility>>

\* The status unassign_slot answers with.
unassign_slot_status(auth, slug, slot_uid) ==
    IF auth = Absent THEN 401
    ELSE IF ~SlugExists(slug) THEN 404
    ELSE IF SlotMission[slot_uid] # MissionOfSlug(slug) THEN 404
    ELSE IF assignee[slot_uid] = None THEN 400
    ELSE IF /\ assignee[slot_uid] # auth[1].user.uid
            /\ ~is_creator(auth, MissionOfSlug(slug))
            /\ ~has_permission(auth[1].permissions,
                               List(<<Dotted(<<"mission", "slot", "assign">>),
                                      Dotted(<<"admin", "*">>)>>))
         THEN 403
    ELSE 200

\* unassign_slot (behind JWTAuth): what it writes.
unassign_slot(authorization, slug, slot_uid) ==
    LET status == unassign_slot_status(JWTAuth(authorization), slug, slot_uid)
    IN  /\ assignee' = IF status = 200
                       THEN [assignee EXCEPT ![slot_uid] = None]
                       ELSE assignee
        /\ UNCHANGED <<community, permissions, visibility>>

-----------------------------------------------------------------------------
(* The visibility model: Spec follows the rows; SpecRead follows the       *)
(* responses of the read endpoints and of update_mission.                  *)

\* The Permission rows of u2 the model starts from.
SeedPermissions ==
    { <<>>,
      <<Dotted(<<"admin", "mission">>)>>,
      <<Dotted(<<"*">>)>>,
      <<Dotted(<<"mission", "foo", "editor">>)>>,
      <<Dotted(<<"Mission", "Foo", "Editor">>)>>,
      <<Dotted(<<"mission", "*">>)>>,
      <<Dotted(<<"mission", "foo">>)>>,
      <<Dotted(<<"mission", "foo", "editor", "extra">>)>>,
      <<Dotted(<<"mission", "foo", "bar", "editor">>)>>,
      <<Dotted(<<"mission", "foo", "bar">>), Dotted(<<"mission", "*">>)>> }

InitVis ==
    /\ community \in [Users -> Communities \cup {None}]
    /\ community["u1"] = None
    /\ permissions \in [Users -> SeedPermissions]
    /\ permissions["u1"] = <<>>
    /\ visibility = [m \in Missions |-> "public"]
    /\ assignee = [s \in Slots |-> None]
    /\ resp = NoResponse

Init ==
    /\ InitVis
    /\ held = <<>> /\ asked = None /\ askedAny = <<>> /\ granted = FALSE
    /\ slotGroups = {} /\ slots = {} /\ procs = <<>>
    /\ applications = {} /\ issued = <<>> /\ gateResp = <<>>
    /\ now = 0 /\ decoded = <<>> /\ registrations = {}

UpdateMission ==
    /\ \E authorization \in Credentials, slug \in SlugArgs,
          payload_visibility \in Visibilities \cup {None} :
          update_mission(authorization, slug, payload_visibility)
    /\ UNCHANGED <<resp, permVars, orderVars, gateVars, tokenVars, registrations>>

AssignSlot ==
    /\ \E authorization \in Credentials, slug \in SlugArgs, slot_uid \in Slots,
          userUid \in Users, force \in BOOLEAN :
          assign_slot(authorization, slug, slot_uid, userUid, force)
    /\ UNCHANGED <<resp, permVars, orderVars, gateVars, tokenVars, registrations>>

UnassignSlot ==
    /\ \E authorization \in Credentials, slug \in SlugArgs, slot_uid \in Slots :
          unassign_slot(authorization, slug, slot_uid)
    /\ UNCHANGED <<resp, permVars, orderVars, gateVars, tokenVars, registrations>>

Next == UpdateMission \/ AssignSlot \/ UnassignSlot

Spec == Init /\ [][Next]_vars

ListMissions ==
    /\ \E authorization \in Credentials :
          resp' = list_missions(authorization)
    /\ UNCHANGED <<dbVars, permVars, orderVars, gateVars, tokenVars, registrations>>

GetMission ==
    /\ \E authorization \in Credentials, slug \in SlugArgs :
          resp' = get_mission(authorization, slug)
    /\ UNCHANGED <<dbVars, permVars, orderVars, gateVars, tokenVars, registrations>>

GetMissionSlots ==
    /\ \E authorization \in Credentials, slug \in SlugArgs :
          resp' = get_mission_slots(authorization, slug)
    /\ UNCHANGED <<dbVars, permVars, orderVars, gateVars, tokenVars, registrations>>

UpdateMissionRequest ==
    /\ \E authorization \in Credentials, slug \in SlugArgs,
          payload_visibility \in Visibilities \cup {None} :
          /\ update_mission(authorization, slug, payload_visibility)
          /\ resp' = update_mission_response(authorization, slug)
    /\ UNCHANGED <<permVars, orderVars, gateVars, tokenVars, registrations>>

NextRead == ListMissions \/ GetMission \/ GetMissionSlots \/ UpdateMissionRequest

SpecRead == Init /\ [][NextRead]_vars

-----------------------------------------------------------------------------
(* Renumbering of slot groups and slots: api/routers/mission.py *)

\* The uids a new MissionSlotGroup or MissionSlot row can get, and the caps
\* that keep the order numbers of the model in a finite range.
MaxGroups == 2
MaxSlots == 3
MaxOrder == 3
MaxInsertAfter == 1
MaxBatch == 1

GroupUids == 1..MaxGroups
SlotUids == 1..MaxSlots

\* insertAfter of a create request (an int, 0 when left out) and orderNumber
\* of an update request (Optional[int]: Absent when left out).
InsertAfterArgs == (-1)..MaxInsertAfter
OrderArgs == {Some(n) : n \in 0..(MaxInsertAfter + 1)} \cup {Absent}

\* uuid4() of a new row: a uid no row has.
NewUid(pool, rows) == CHOOSE u \in pool : \A r \in rows : r.uid # u

\* MissionSlotGroup.objects.filter(mission=mission)
GroupsOf(mission) == {g \in slotGroups : g.mission = mission}

\* MissionSlot.objects.filter(slot_group=slot_group)
SlotsOf(group_uid) == {x \in slots : x.slot_group = group_uid}

GroupRow(uid) == CHOOSE g \in slotGroups : g.uid = uid
SlotRow(uid) == CHOOSE x \in slots : x.uid = uid

\* get_object_or_404(MissionSlotGroup, uid=slot_group_uid, mission=mission)
GroupFound(uid, mission) ==
    \E g \in slotGroups : g.uid = uid /\ g.mission = mission

\* get_object_or_404(MissionSlot, uid=slot_uid, slot_group__mission=mission)
SlotFound(uid, mission) ==
    \E x \in slots : x.uid = uid /\ GroupFound(x.slot_group, mission)

\* The shift of an insert that leaves the row at the insert point in place
ShiftForInsertAbove(rows, scope, new_order_number) ==
    { IF r \in scope /\ r.order_number > new_order_number
      THEN [r EXCEPT !.order_number = @ + 1] ELSE r : r \in rows }

\* The loop "if row.order_number >= new_order_number: row.order_number += 1;
\* row.save()" over the rows of one scope.
ShiftForInsert(rows, scope, new_order_number) ==
    { IF r \in scope /\ r.order_number >= new_order_number
      THEN [r EXCEPT !.order_number = @ + 1] ELSE r : r \in rows }

\* The move whose shift stops one row short of the new position
ShiftForMoveShort(rows, scope, uid, old_order, new_order) ==
    { IF r.uid = uid THEN [r EXCEPT !.order_number = new_order]
      ELSE IF r \in scope /\ new_order > old_order
              /\ r.order_number > old_order /\ r.order_number < new_order
      THEN [r EXCEPT !.order_number = @ - 1]
      ELSE IF r \in scope /\ new_order <= old_order
              /\ r.order_number > new_order /\ r.order_number < old_order
      THEN [r EXCEPT !.order_number = @ + 1]
      ELSE r : r \in rows }

\* The two filter(...).update(order_number=F('order_number') -/+ 1) of a move,
\* then the save of the moved row with its new order number.
ShiftForMove(rows, scope, uid, old_order, new_order) ==
    { IF r.uid = uid THEN [r EXCEPT !.order_number = new_order]
      ELSE IF r \in scope /\ new_order > old_order
              /\ r.order_number > old_order /\ r.order_number <= new_order
      THEN [r EXCEPT !.order_number = @ - 1]
      ELSE IF r \in scope /\ new_order <= old_order
              /\ r.order_number >= new_order /\ r.order_number < old_order
      THEN [r EXCEPT !.order_number = @ + 1]
      ELSE r : r \in rows }

\* The delete that leaves the rows after the deleted one where they were
ShiftForDeleteNone(rows, scope, deleted_order) == rows

\* filter(order_number__gt=deleted_order).update(order_number=F(...) - 1)
\* over the rows left in the scope.
ShiftForDelete(rows, scope, deleted_order) ==
    { IF r \in scope /\ r.order_number > deleted_order
      THEN [r EXCEPT !.order_number = @ - 1] ELSE r : r \in rows }

\* The status of the check every renumbering handler starts with.
edit_status(auth, slug) ==
    IF auth = Absent THEN 401
    ELSE IF ~SlugExists(slug) THEN 404
    ELSE IF ~is_creator(auth, MissionOfSlug(slug)) /\ ~is_admin(auth) THEN 403
    ELSE 200

\* create_mission_slot_group
create_mission_slot_group(authorization, slug, insertAfter) ==
    LET status == edit_status(JWTAuth(authorization), slug)
        mission == MissionOfSlug(slug)
        new_order_number == insertAfter + 1
    IN  /\ slotGroups' =
              IF status # 200 THEN slotGroups
              ELSE ShiftForInsert(slotGroups, GroupsOf(mission), new_order_number)
                   \cup {[uid |-> NewUid(GroupUids, slotGroups),
                          mission |-> mission,
                          order_number |-> new_order_number]}
        /\ UNCHANGED slots

\* The status update_mission_slot_group answers with.
update_mission_slot_group_status(auth, slug, slot_group_uid) ==
    IF edit_status(auth, slug) # 200 THEN edit_status(auth, slug)
    ELSE IF ~GroupFound(slot_group_uid, MissionOfSlug(slug)) THEN 404
    ELSE 200

\* update_mission_slot_group
update_mission_slot_group(authorization, slug, slot_group_uid, orderNumber) ==
    LET status == update_mission_slot_group_status(JWTAuth(authorization), slug,
                                                   slot_group_uid)
        mission == MissionOfSlug(slug)
        old_order == GroupRow(slot_group_uid).order_number
    IN  /\ slotGroups' =
              IF status = 200 /\ orderNumber # Absent
                 /\ orderNumber[1] # old_order
              THEN ShiftForMove(slotGroups, GroupsOf(mission), slot_group_uid,
                                old_order, orderNumber[1])
              ELSE slotGroups
        /\ UNCHANGED slots

\* delete_mission_slot_group: the row and, by cascade, its slots go; the
\* groups after it move down.
delete_mission_slot_group(authorization, slug, slot_group_uid) ==
    LET status == update_mission_slot_group_status(JWTAuth(authorization), slug,
                                                   slot_group_uid)
        mission == MissionOfSlug(slug)
        slot_group == GroupRow(slot_group_uid)
        left == slotGroups \ {slot_group}
    IN  /\ slotGroups' =
              IF status = 200
              THEN ShiftForDelete(left, {g \in left : g.mission = mission},
                                  slot_group.order_number)
              ELSE slotGroups
        /\ slots' = IF status = 200
                    THEN {x \in slots : x.slot_group # slot_group_uid}
                    ELSE slots

\* One round of the loop of create_mission_slots, on the rows `rows`: the
\* shift of the slots after the insert point, each saved as it is moved.
ShiftOneSlot(rows, slot_data) ==
    LET scope == {x \in rows : x.slot_group = slot_data.slotGroupUid}
    IN  ShiftForInsert(rows, scope, slot_data.insertAfter + 1)

\* get_object_or_404(Community, uid=slot_data.restrictedCommunityUid) fails.
CommunityMissing(slot_data) ==
    /\ slot_data.restrictedCommunityUid # None
    /\ slot_data.restrictedCommunityUid \notin Communities

\* One whole round of the loop: the shift, then MissionSlot.objects.create.
CreateOneSlot(rows, slot_data) ==
    ShiftOneSlot(rows, slot_data)
    \cup {[uid |-> NewUid(SlotUids, rows),
           slot_group |-> slot_data.slotGroupUid,
           order_number |-> slot_data.insertAfter + 1]}

\* The loop of create_mission_slots from item i: [status, rows].  An item
\* whose slot group is not of the mission, or whose restricted community does
\* not exist, ends the request with 404; every row saved before that point
\* (the earlier rounds, and the shift of this round) stays saved: the handler
\* opens no transaction.
RECURSIVE CreateSlotsFrom(_, _, _, _)
CreateSlotsFrom(rows, data, i, mission) ==
    IF i > Len(data) THEN [status |-> 200, rows |-> rows]
    ELSE IF ~GroupFound(data[i].slotGroupUid, mission)
         THEN [status |-> 404, rows |-> rows]
    ELSE IF CommunityMissing(data[i])
         THEN [status |-> 404, rows |-> ShiftOneSlot(rows, data[i])]
    ELSE CreateSlotsFrom(CreateOneSlot(rows, data[i]), data, i + 1, mission)

\* create_mission_slots
create_mission_slots(authorization, slug, data) ==
    LET status == edit_status(JWTAuth(authorization), slug)
        done == CreateSlotsFrom(slots, data, 1, MissionOfSlug(slug))
    IN  /\ slots' = IF status # 200 THEN slots ELSE done.rows
        /\ UNCHANGED slotGroups

\* The status update_mission_slot and delete_mission_slot answer with.
update_mission_slot_status(auth, slug, slot_uid) ==
    IF edit_status(auth, slug) # 200 THEN edit_status(auth, slug)
    ELSE IF ~SlotFound(slot_uid, MissionOfSlug(slug)) THEN 404
    ELSE 200

\* update_mission_slot
update_mission_slot(authorization, slug, slot_uid, orderNumber) ==
    LET status == update_mission_slot_status(JWTAuth(authorization), slug,
                                             slot_uid)
        slot == SlotRow(slot_uid)
    IN  /\ slots' =
              IF status = 200 /\ orderNumber # Absent
                 /\ orderNumber[1] # slot.order_number
              THEN ShiftForMove(slots, SlotsOf(slot.slot_group), slot_uid,
                                slot.order_number, orderNumber[1])
              ELSE slots
        /\ UNCHANGED slotGroups

\* delete_mission_slot
delete_mission_slot(authorization, slug, slot_uid) ==
    LET status == update_mission_slot_status(JWTAuth(authorization), slug,
                                             slot_uid)
        slot == SlotRow(slot_uid)
        left == slots \ {slot}
    IN  /\ slots' =
              IF status = 200
              THEN ShiftForDelete(left,
                                  {x \in left : x.slot_group = slot.slot_group},
                                  slot.order_number)
              ELSE slots
        /\ UNCHANGED slotGroups

-----------------------------------------------------------------------------
(* The renumbering model: SpecOrder *)

\* The items of a create-slots request
SlotData == [slotGroupUid : GroupUids, insertAfter : InsertAfterArgs,
             restrictedCommunityUid : {None, "cx"}]
SlotDataLists == UNION { [1..k -> SlotData] : k \in 1..MaxBatch }

\* The clients of the renumbering model: u1 (creator of m1, admin.mission)
\* and u2 (creator of m2), each with a token that verifies.
OrderCredentials == {Some(generate_jwt(u)) : u \in Users}

InitOrder ==
    /\ community = [u \in Users |-> None]
    /\ permissions = [u \in Users |-> IF u = "u1" THEN <<ADMIN_MISSION>>
                                                  ELSE <<>>]
    /\ visibility = [m \in Missions |-> "public"]
    /\ assignee = [s \in Slots |-> None]
    /\ resp = NoResponse
    /\ held = <<>> /\ asked = None /\ askedAny = <<>> /\ granted = FALSE
    /\ slotGroups = {} /\ slots = {} /\ procs = <<>>
    /\ applications = {} /\ issued = <<>> /\ gateResp = <<>>
    /\ now = 0 /\ decoded = <<>> /\ registrations = {}

\* The caps: no more rows than uids to spare, no order number above MaxOrder.
WithinCaps ==
    /\ Cardinality(slotGroups') <= MaxGroups
    /\ Cardinality(slots') <= MaxSlots
    /\ \A r \in slotGroups' \cup slots' : r.order_number <= MaxOrder

MissionSlugs == {Slug[m] : m \in Missions}

CreateMissionSlotGroup ==
    /\ Cardinality(slotGroups) < MaxGroups
    /\ \E authorization \in OrderCredentials, slug \in MissionSlugs,
          insertAfter \in InsertAfterArgs :
          create_mission_slot_group(authorization, slug, insertAfter)
    /\ WithinCaps
    /\ UNCHANGED <<visVars, permVars, procs, gateVars, tokenVars, registrations>>

UpdateMissionSlotGroup ==
    /\ \E authorization \in OrderCredentials, slug \in MissionSlugs,
          slot_group_uid \in GroupUids, orderNumber \in OrderArgs :
          update_mission_slot_group(authorization, slug, slot_group_uid,
                                    orderNumber)
    /\ WithinCaps
    /\ UNCHANGED <<visVars, permVars, procs, gateVars, tokenVars, registrations>>

DeleteMissionSlotGroup ==
    /\ \E authorization \in OrderCredentials, slug \in MissionSlugs,
          slot_group_uid \in GroupUids :
          delete_mission_slot_group(authorization, slug, slot_group_uid)
    /\ UNCHANGED <<visVars, permVars, procs, gateVars, tokenVars, registrations>>

CreateMissionSlots ==
    /\ Cardinality(slots) + MaxBatch <= MaxSlots
    /\ \E authorization \in OrderCredentials, slug \in MissionSlugs,
          data \in SlotDataLists :
          create_mission_slots(authorization, slug, data)
    /\ WithinCaps
    /\ UNCHANGED <<visVars, permVars, procs, gateVars, tokenVars, registrations>>

UpdateMissionSlot ==
    /\ \E authorization \in OrderCredentials, slug \in MissionSlugs,
          slot_uid \in SlotUids, orderNumber \in OrderArgs :
          update_mission_slot(authorization, slug, slot_uid, orderNumber)
    /\ WithinCaps
    /\ UNCHANGED <<visVars, permVars, procs, gateVars, tokenVars, registrations>>

DeleteMissionSlot ==
    /\ \E authorization \in OrderCredentials, slug \in MissionSlugs,
          slot_uid \in SlotUids :
          delete_mission_slot(authorization, slug, slot_uid)
    /\ UNCHANGED <<visVars, permVars, procs, gateVars, tokenVars, registrations>>

NextOrder ==
    \/ CreateMissionSlotGroup
    \/ UpdateMissionSlotGroup
    \/ DeleteMissionSlotGroup
    \/ CreateMissionSlots
    \/ UpdateMissionSlot
    \/ DeleteMissionSlot

SpecOrder == InitOrder /\ [][NextOrder]_vars

-----------------------------------------------------------------------------
(* Two workers in create_mission_slot_group at once: SpecRace.  The handler *)
(* opens no transaction and takes no lock, so every query of it is a step   *)
(* of its own: the read of existing_groups, each group.save() of the shift  *)
(* loop, and the create of the new row.                                     *)

Procs == {"p1", "p2"}
MaxRaceGroups == 3
RaceGroupUids == 1..MaxRaceGroups

\* A worker that serves no request
Idle == [pc |-> "idle", mission |-> None, new_order_number |-> 0, todo |-> <<>>]

\* sorted by order_number: the rows of a set as a list, lowest order first
RECURSIVE order_by(_)
order_by(rows) ==
    IF rows = {} THEN <<>>
    ELSE LET first == CHOOSE r \in rows :
                         \A q \in rows :
                            \/ r.order_number < q.order_number
                            \/ (r.order_number = q.order_number /\ r.uid <= q.uid)
         IN  <<first>> \o order_by(rows \ {first})

\* The rows of a list the shift loop saves: those at new_order_number or above
ToShift(existing_groups, new_order_number) ==
    SelectSeq(existing_groups, LAMBDA g : g.order_number >= new_order_number)

\* The worker takes a request, passes the permission check and reads
\* existing_groups; a request that fails the check ends here.
BeginCreate(p, authorization, slug, insertAfter) ==
    /\ procs[p].pc = "idle"
    /\ Cardinality(slotGroups)
         + Cardinality({q \in Procs : procs[q].pc # "idle"}) < MaxRaceGroups
    /\ procs' =
          IF edit_status(JWTAuth(authorization), slug) # 200 THEN procs
          ELSE [procs EXCEPT ![p] =
                  [pc |-> "shift",
                   mission |-> MissionOfSlug(slug),
                   new_order_number |-> insertAfter + 1,
                   todo |-> ToShift(order_by(GroupsOf(MissionOfSlug(slug))),
                                    insertAfter + 1)]]
    /\ UNCHANGED <<slotGroups, slots>>

\* group.order_number += 1; group.save(): the row gets the order number the
\* worker read, plus one.
ShiftOne(p) ==
    /\ procs[p].pc = "shift"
    /\ procs[p].todo # <<>>
    /\ LET group == Head(procs[p].todo)
       IN  slotGroups' =
              {g \in slotGroups : g.uid # group.uid}
              \cup {[group EXCEPT !.order_number = @ + 1]}
    /\ procs' = [procs EXCEPT ![p].todo = Tail(@)]
    /\ UNCHANGED slots

\* MissionSlotGroup.objects.create(..., order_number=new_order_number)
FinishCreate(p) ==
    /\ procs[p].pc = "shift"
    /\ procs[p].todo = <<>>
    /\ slotGroups' = slotGroups
          \cup {[uid |-> NewUid(RaceGroupUids, slotGroups),
                 mission |-> procs[p].mission,
                 order_number |-> procs[p].new_order_number]}
    /\ procs' = [procs EXCEPT ![p] = Idle]
    /\ UNCHANGED slots

InitRace ==
    /\ community = [u \in Users |-> None]
    /\ permissions = [u \in Users |-> IF u = "u1" THEN <<ADMIN_MISSION>>
                                                  ELSE <<>>]
    /\ visibility = [m \in Missions |-> "public"]
    /\ assignee = [s \in Slots |-> None]
    /\ resp = NoResponse
    /\ held = <<>> /\ asked = None /\ askedAny = <<>> /\ granted = FALSE
    /\ slotGroups = {} /\ slots = {}
    /\ procs = [p \in Procs |-> Idle]
    /\ applications = {} /\ issued = <<>> /\ gateResp = <<>>
    /\ now = 0 /\ decoded = <<>> /\ registrations = {}

RaceBegin ==
    /\ \E p \in Procs, authorization \in OrderCredentials,
          slug \in MissionSlugs, insertAfter \in InsertAfterArgs :
          BeginCreate(p, authorization, slug, insertAfter)
    /\ UNCHANGED <<visVars, permVars, gateVars, tokenVars, registrations>>

RaceShift ==
    /\ \E p \in Procs : ShiftOne(p)
    /\ UNCHANGED <<visVars, permVars, gateVars, tokenVars, registrations>>

RaceFinish ==
    /\ \E p \in Procs : FinishCreate(p)
    /\ UNCHANGED <<visVars, permVars, gateVars, tokenVars, registrations>>

NextRace == RaceBegin \/ RaceShift \/ RaceFinish

SpecRace == InitRace /\ [][NextRace]_vars

-----------------------------------------------------------------------------
(* The community gate: api/auth.py and the application and membership      *)
(* handlers of api/routers/community.py (SpecGate)                         *)

\* Community.slug of every community
CommunitySlug == [c \in Communities |-> IF c = "ca" THEN <<"alpha">> ELSE <<"beta">>]
CommunitySlugArgs == {CommunitySlug[c] : c \in Communities} \cup {<<"nope">>}

CommunityFound(slug) == \E c \in Communities : CommunitySlug[c] = slug

\* get_object_or_404(Community, slug=slug)
CommunityOfSlug(slug) == CHOOSE c \in Communities : CommunitySlug[c] = slug

\* A well-formed uid that no User row has.
GhostUid == "u0"
GateUids == Users \cup {GhostUid}

USER_NOT_FOUND == "User not found"
PENDING_APPLICATION ==
    "You have a pending community application. Please wait for approval."
MUST_BE_MEMBER ==
    "You must be a member of a community to access this content. Please apply to a community first."

\* has_approved_community with the pending check reading every application
\* of the user, whatever its status
has_approved_community_any_status(user_uid) ==
    IF user_uid \notin Users
    THEN [allowed |-> FALSE, reason |-> USER_NOT_FOUND]
    ELSE IF community[user_uid] # None
    THEN [allowed |-> TRUE, reason |-> None]
    ELSE IF \E a \in applications : a.user = user_uid
    THEN [allowed |-> FALSE, reason |-> PENDING_APPLICATION]
    ELSE [allowed |-> FALSE, reason |-> MUST_BE_MEMBER]

\* has_approved_community: (has_community, status_message)
has_approved_community(user_uid) ==
    IF user_uid \notin Users
    THEN [allowed |-> FALSE, reason |-> USER_NOT_FOUND]
    ELSE IF community[user_uid] # None
    THEN [allowed |-> TRUE, reason |-> None]
    ELSE IF \E a \in applications : a.user = user_uid /\ a.status = "submitted"
    THEN [allowed |-> FALSE, reason |-> PENDING_APPLICATION]
    ELSE [allowed |-> FALSE, reason |-> MUST_BE_MEMBER]

\* A token that verifies and names a uid of no User row.
GhostToken ==
    [key |-> JWT_SECRET,
     alg |-> JWT_ALGORITHM,
     payload |-> [user |-> [uid |-> GhostUid, community |-> Absent],
                  permissions |-> <<>>,
                  iat |-> 0,
                  exp |-> JWT_EXPIRES_IN,
                  iss |-> JWT_ISSUER,
                  aud |-> JWT_AUDIENCE,
                  sub |-> GhostUid]]

\* A token that verifies and whose user claim holds no uid.
UidlessToken ==
    [key |-> JWT_SECRET,
     alg |-> JWT_ALGORITHM,
     payload |-> [user |-> [community |-> Absent],
                  permissions |-> <<>>,
                  iat |-> 0,
                  exp |-> JWT_EXPIRES_IN,
                  iss |-> JWT_ISSUER,
                  aud |-> JWT_AUDIENCE]]

\* payload.get('user', {}).get('uid'): None when the claim holds no uid
UserUidOf(payload) ==
    IF "uid" \in DOMAIN payload.user THEN payload.user.uid ELSE None

\* RequiresCommunityMembership.authenticate answering on the token alone
RequiresCommunityMembershipTokenOnly(authorization) ==
    IF authorization = Absent THEN Absent ELSE decode_jwt(authorization[1])

\* RequiresCommunityMembership.authenticate taking membership from the
\* community the token names
RequiresCommunityMembershipFromClaims(authorization) ==
    IF authorization = Absent THEN Absent
    ELSE LET payload == decode_jwt(authorization[1])
         IN  IF payload = Absent THEN Absent
             ELSE IF UserUidOf(payload[1]) = None THEN Absent
             ELSE IF "community" \notin DOMAIN payload[1].user THEN Absent
             ELSE IF payload[1].user.community = Absent THEN Absent
             ELSE payload

\* RequiresCommunityMembership.authenticate: request.auth of a gated endpoint
\* (Absent: the request is answered 401 and the handler does not run).
RequiresCommunityMembership(authorization) ==
    IF authorization = Absent THEN Absent
    ELSE LET payload == decode_jwt(authorization[1])
         IN  IF payload = Absent THEN Absent
             ELSE IF UserUidOf(payload[1]) = None THEN Absent
             ELSE IF ~has_approved_community(UserUidOf(payload[1])).allowed
                  THEN Absent
             ELSE payload

\* request.community_membership_error after authenticate (None: not set)
community_membership_error(authorization) ==
    IF authorization = Absent THEN None
    ELSE LET payload == decode_jwt(authorization[1])
         IN  IF payload = Absent THEN None
             ELSE IF UserUidOf(payload[1]) = None THEN None
             ELSE has_approved_community(UserUidOf(payload[1])).reason

\* The answer to a request to a gated endpoint: ran tells whether the body of
\* the handler was entered, and every handler starts with
\* get_object_or_404(Community, slug=slug).
GatedResponse(op, authorization, slug) ==
    LET auth == RequiresCommunityMembership(authorization)
    IN  [op |-> op,
         authorization |-> authorization,
         status |-> IF auth = Absent THEN 401
                    ELSE IF ~CommunityFound(slug) THEN 404
                    ELSE 200,
         ran |-> auth # Absent,
         error |-> community_membership_error(authorization)]

NoGateResponse ==
    [op |-> None, authorization |-> Absent, status |-> 0, ran |-> FALSE,
     error |-> None]

get_community_missions(authorization, slug) ==
    GatedResponse("get_community_missions", authorization, slug)

get_community_permissions(authorization, slug) ==
    GatedResponse("get_community_permissions", authorization, slug)

get_community_repositories(authorization, slug) ==
    GatedResponse("get_community_repositories", authorization, slug)

get_community_servers(authorization, slug) ==
    GatedResponse("get_community_servers", authorization, slug)

\* f'community.{slug}.{role}'
CommunityPermission(slug, role) == <<"community", Dot>> \o slug \o <<Dot, role>>

\* The permission check of process_community_application and of
\* remove_community_member
MayManageMembers(auth, slug) ==
    \/ has_permission(auth[1].permissions, Str(CommunityPermission(slug, "leader")))
    \/ has_permission(auth[1].permissions, Str(CommunityPermission(slug, "recruitment")))
    \/ has_permission(auth[1].permissions, Str(CommunityPermission(slug, "founder")))

\* The uid of an application: one stands for each pair, as the handler
\* refuses a second application of a user to a community.
ApplicationUid(user, c) == <<user, c>>
ApplicationUids == {ApplicationUid(u, c) : u \in Users, c \in Communities}

\* The status create_community_application answers with.
create_community_application_status(auth, slug) ==
    IF auth = Absent THEN 401
    ELSE IF ~CommunityFound(slug) THEN 404
    ELSE IF UserUidOf(auth[1]) = None THEN 401
    ELSE IF UserUidOf(auth[1]) \notin Users THEN 404
    ELSE IF \E a \in applications : /\ a.user = UserUidOf(auth[1])
                                    /\ a.community = CommunityOfSlug(slug)
         THEN 400
    ELSE 200

\* create_community_application: what it writes.
create_community_application(authorization, slug) ==
    LET auth == JWTAuth(authorization)
        status == create_community_application_status(auth, slug)
    IN  /\ applications' =
              IF status = 200
              THEN applications \cup
                   {[uid |-> ApplicationUid(auth[1].user.uid, CommunityOfSlug(slug)),
                     user |-> auth[1].user.uid,
                     community |-> CommunityOfSlug(slug),
                     status |-> "submitted"]}
              ELSE applications
        /\ UNCHANGED community

ApplicationFound(application_uid, c) ==
    \E a \in applications : a.uid = application_uid /\ a.community = c

ApplicationRow(application_uid) ==
    CHOOSE a \in applications : a.uid = application_uid

\* The status process_community_application answers with.
process_community_application_status(auth, slug, application_uid, payload_status) ==
    IF auth = Absent THEN 401
    ELSE IF ~MayManageMembers(auth, slug) THEN 403
    ELSE IF ~CommunityFound(slug) THEN 404
    ELSE IF ~ApplicationFound(application_uid, CommunityOfSlug(slug)) THEN 404
    ELSE IF payload_status \notin {"accepted", "denied"} THEN 400
    ELSE 200

\* CommunityApplication.save(): an application saved as approved puts its
\* user in its community.
CommunityAfterSave(application) ==
    IF application.status = "approved"
    THEN [community EXCEPT ![application.user] = application.community]
    ELSE community

\* process_community_application: what it writes.
process_community_application(authorization, slug, application_uid, payload_status) ==
    LET status == process_community_application_status(
                      JWTAuth(authorization), slug, application_uid, payload_status)
    IN  IF status = 200
        THEN LET application ==
                    [ApplicationRow(application_uid) EXCEPT
                        !.status = IF payload_status = "accepted"
                                   THEN "approved" ELSE "denied"]
             IN  /\ applications' =
                       {a \in applications : a.uid # application_uid}
                       \cup {application}
                 /\ community' = CommunityAfterSave(application)
        ELSE UNCHANGED <<applications, community>>

\* The status remove_community_member answers with.
remove_community_member_status(auth, slug, member_uid) ==
    IF auth = Absent THEN 401
    ELSE IF ~MayManageMembers(auth, slug) THEN 403
    ELSE IF ~CommunityFound(slug) THEN 404
    ELSE IF member_uid \notin Users THEN 404
    ELSE IF community[member_uid] # CommunityOfSlug(slug) THEN 400
    ELSE 200

\* remove_community_member: what it writes.
remove_community_member(authorization, slug, member_uid) ==
    LET status == remove_community_member_status(JWTAuth(authorization), slug,
                                                 member_uid)
    IN  /\ community' = IF status = 200
                        THEN [community EXCEPT ![member_uid] = None]
                        ELSE community
        /\ UNCHANGED applications

\* What a client can send to a gated endpoint: nothing, a token that does
\* not verify, a token without a uid, a token of no user, or a token it holds.
GateCredentials ==
    {Absent, Some(ForgedToken), Some(UidlessToken), Some(GhostToken)}
    \cup {issued[u] : u \in Users}

\* The requests followed: u1 manages the members and u2 applies.
Applicants == {"u2"}
ApplicantCredentials ==
    {Absent, Some(ForgedToken), Some(UidlessToken), Some(GhostToken)}
    \cup {issued[u] : u \in Applicants}
ManagerCredentials == {Absent} \cup {issued[u] : u \in Users}

\* The rights over the members: u1 manages both communities.
GatePermissions ==
    [u \in Users |->
        IF u = "u1"
        THEN <<CommunityPermission(<<"alpha">>, "founder"),
               CommunityPermission(<<"beta">>, "recruitment")>>
        ELSE <<>>]

InitGate ==
    /\ community = [u \in Users |-> None]
    /\ permissions = GatePermissions
    /\ visibility = [m \in Missions |-> "public"]
    /\ assignee = [s \in Slots |-> None]
    /\ resp = NoResponse
    /\ held = <<>> /\ asked = None /\ askedAny = <<>> /\ granted = FALSE
    /\ slotGroups = {} /\ slots = {} /\ procs = <<>>
    /\ applications = {}
    /\ issued = [u \in Users |-> Absent]
    /\ gateResp = NoGateResponse
    /\ now = 0 /\ decoded = <<>> /\ registrations = {}

gateFrame ==
    <<permissions, visibility, assignee, resp, permVars, orderVars, tokenVars,
      registrations>>

\* A client signs in: it holds the token generate_jwt makes of its user now.
Login ==
    /\ \E u \in Users : issued' = [issued EXCEPT ![u] = Some(generate_jwt(u))]
    /\ UNCHANGED <<community, applications, gateResp, gateFrame>>

CreateCommunityApplication ==
    /\ \E authorization \in ApplicantCredentials, slug \in CommunitySlugArgs :
          create_community_application(authorization, slug)
    /\ UNCHANGED <<issued, gateResp, gateFrame>>

ProcessCommunityApplication ==
    /\ \E authorization \in ManagerCredentials, slug \in CommunitySlugArgs,
          application_uid \in ApplicationUids,
          payload_status \in {"accepted", "denied", "submitted"} :
          process_community_application(authorization, slug, application_uid,
                                        payload_status)
    /\ UNCHANGED <<issued, gateResp, gateFrame>>

RemoveCommunityMember ==
    /\ \E authorization \in ManagerCredentials, slug \in CommunitySlugArgs,
          member_uid \in GateUids :
          remove_community_member(authorization, slug, member_uid)
    /\ UNCHANGED <<issued, gateResp, gateFrame>>

GetCommunityMissions ==
    /\ \E authorization \in GateCredentials, slug \in CommunitySlugArgs :
          gateResp' = get_community_missions(authorization, slug)
    /\ UNCHANGED <<community, applications, issued, gateFrame>>

GetCommunityPermissions ==
    /\ \E authorization \in GateCredentials, slug \in CommunitySlugArgs :
          gateResp' = get_community_permissions(authorization, slug)
    /\ UNCHANGED <<community, applications, issued, gateFrame>>

GetCommunityRepositories ==
    /\ \E authorization \in GateCredentials, slug \in CommunitySlugArgs :
          gateResp' = get_community_repositories(authorization, slug)
    /\ UNCHANGED <<community, applications, issued, gateFrame>>

GetCommunityServers ==
    /\ \E authorization \in GateCredentials, slug \in CommunitySlugArgs :
          gateResp' = get_community_servers(authorization, slug)
    /\ UNCHANGED <<community, applications, issued, gateFrame>>

NextGate ==
    \/ Login
    \/ CreateCommunityApplication
    \/ ProcessCommunityApplication
    \/ RemoveCommunityMember
    \/ GetCommunityMissions
    \/ GetCommunityPermissions
    \/ GetCommunityRepositories
    \/ GetCommunityServers

SpecGate == InitGate /\ [][NextGate]_vars

-----------------------------------------------------------------------------
(* Tokens over time: generate_jwt and decode_jwt of api/auth.py with the    *)
(* clock running, and the permission endpoints of api/routers/user.py      *)
(* (SpecToken)                                                             *)

MaxNow == 3

ADMIN_PERMISSION == Dotted(<<"admin", "permission">>)

\* A string that jwt.decode cannot split into header, claims and signature.
MalformedToken == [raw |-> "garbage"]

\* The claims of a token without the claim named
WithoutClaim(payload, claim) ==
    [f \in DOMAIN payload \ {claim} |-> payload[f]]

\* What a client can make of a token it holds: the token itself, the token
\* signed with another key, with another algorithm in its header, with
\* another issuer or audience, or a token of the server's key that lacks the
\* issuer, the audience or the expiry.
TokensFrom(token) ==
    { token,
      [token EXCEPT !.key = "other"],
      [token EXCEPT !.alg = "none"],
      [token EXCEPT !.payload.iss = "other"],
      [token EXCEPT !.payload.aud = "other"],
      [token EXCEPT !.payload = WithoutClaim(@, "iss")],
      [token EXCEPT !.payload = WithoutClaim(@, "aud")],
      [token EXCEPT !.payload = WithoutClaim(@, "exp")] }

TokenInputs ==
    {MalformedToken}
    \cup UNION {TokensFrom(issued[u][1]) : u \in {v \in Users : issued[v] # Absent}}

NoDecode == [token |-> Absent, at |-> 0, result |-> Absent]

\* The status create_user_permission answers with.
create_user_permission_status(auth, user_uid) ==
    IF auth = Absent THEN 401
    ELSE IF ~has_permission(auth[1].permissions, Str(ADMIN_PERMISSION)) THEN 403
    ELSE IF user_uid \notin Users THEN 404
    ELSE 200

\* Permission.objects.get_or_create(user=user, permission=permission)
get_or_create(rows, permission) ==
    IF \E i \in DOMAIN rows : rows[i] = permission THEN rows
    ELSE Append(rows, permission)

\* create_user_permission: what it writes.
create_user_permission(authorization, user_uid, permission) ==
    permissions' =
        IF create_user_permission_status(JWTAuth(authorization), user_uid) = 200
        THEN [permissions EXCEPT ![user_uid] = get_or_create(@, permission)]
        ELSE permissions

\* The rows without the row at position i
WithoutRow(rows, i) ==
    [k \in 1..(Len(rows) - 1) |-> IF k < i THEN rows[k] ELSE rows[k + 1]]

\* The status delete_user_permission answers with; permission_uid is the
\* position of the row among the rows of the user.
delete_user_permission_status(auth, user_uid, permission_uid) ==
    IF auth = Absent THEN 401
    ELSE IF ~has_permission(auth[1].permissions, Str(ADMIN_PERMISSION)) THEN 403
    ELSE IF user_uid \notin Users THEN 404
    ELSE IF permission_uid \notin DOMAIN permissions[user_uid] THEN 404
    ELSE 200

\* delete_user_permission: what it writes.
delete_user_permission(authorization, user_uid, permission_uid) ==
    permissions' =
        IF delete_user_permission_status(JWTAuth(authorization), user_uid,
                                         permission_uid) = 200
        THEN [permissions EXCEPT ![user_uid] = WithoutRow(@, permission_uid)]
        ELSE permissions

\* The permissions the administrator hands out, and to whom
PermissionArgs ==
    {Dotted(<<"mission", "foo", "editor">>), Dotted(<<"admin", "mission">>)}
Grantees == {"u2"}
MaxRows == 2

\* The clients that sign in again; the administrator u1 holds the token of
\* its first sign-in.
TokenHolders == {"u2"}

InitToken ==
    /\ community = [u \in Users |-> IF u = "u2" THEN "ca" ELSE None]
    /\ permissions = [u \in Users |-> IF u = "u1" THEN <<ADMIN_PERMISSION>>
                                                  ELSE <<>>]
    /\ visibility = [m \in Missions |-> "public"]
    /\ assignee = [s \in Slots |-> None]
    /\ resp = NoResponse
    /\ held = <<>> /\ asked = None /\ askedAny = <<>> /\ granted = FALSE
    /\ slotGroups = {} /\ slots = {} /\ procs = <<>>
    /\ applications = {} /\ gateResp = <<>> /\ registrations = {}
    /\ now = 0
    /\ issued = [u \in Users |->
                    IF u = "u1"
                    THEN Some([key |-> JWT_SECRET,
                               alg |-> JWT_ALGORITHM,
                               payload |->
                                  [user |-> [uid |-> u, community |-> Absent],
                                   permissions |-> <<ADMIN_PERMISSION>>,
                                   iat |-> 0,
                                   exp |-> JWT_EXPIRES_IN,
                                   iss |-> JWT_ISSUER,
                                   aud |-> JWT_AUDIENCE,
                                   sub |-> u]])
                    ELSE Absent]
    /\ decoded = NoDecode

tokenFrame ==
    <<community, visibility, assignee, resp, permVars, orderVars, applications,
      gateResp, registrations>>

\* Time passes.
Tick ==
    /\ now < MaxNow
    /\ now' = now + 1
    /\ UNCHANGED <<permissions, issued, decoded, tokenFrame>>

\* A client signs in: generate_jwt(user)
IssueToken ==
    /\ \E u \in TokenHolders :
          issued' = [issued EXCEPT ![u] = Some(generate_jwt(u))]
    /\ UNCHANGED <<permissions, now, decoded, tokenFrame>>

\* The server is handed a token: decode_jwt(token)
DecodeToken ==
    /\ \E token \in TokenInputs :
          decoded' = [token |-> Some(token), at |-> now,
                      result |-> decode_jwt(token)]
    /\ UNCHANGED <<permissions, now, issued, tokenFrame>>

CreateUserPermission ==
    /\ \E user_uid \in Grantees, permission \in PermissionArgs :
          /\ Len(permissions[user_uid]) < MaxRows
          /\ create_user_permission(issued["u1"], user_uid, permission)
    /\ UNCHANGED <<now, issued, decoded, tokenFrame>>

DeleteUserPermission ==
    /\ \E user_uid \in Grantees, permission_uid \in 1..MaxRows :
          delete_user_permission(issued["u1"], user_uid, permission_uid)
    /\ UNCHANGED <<now, issued, decoded, tokenFrame>>

NextToken ==
    \/ Tick
    \/ IssueToken
    \/ DecodeToken
    \/ CreateUserPermission
    \/ DeleteUserPermission

SpecToken == InitToken /\ [][NextToken]_vars

-----------------------------------------------------------------------------
(* Two workers in create_community_application at once: SpecApply.  The     *)
(* handler opens no transaction and takes no lock, so the query for an      *)
(* existing application and the create of the new row are two steps.        *)

MaxApplications == 3
ApplicationRowUids == 1..MaxApplications

\* A worker that serves no request
ApplyIdle == [pc |-> "idle", user |-> None, community |-> None]

\* What the clients of SpecApply send: the token of a user.
ApplyCredentials == {Some(generate_jwt(u)) : u \in Users}

\* create_community_application up to the query for existing_app: the worker
\* goes on to the create when the handler found nothing to refuse.
BeginApply(p, authorization, slug) ==
    LET auth == JWTAuth(authorization)
    IN  /\ procs[p].pc = "idle"
        /\ procs' =
              IF create_community_application_status(auth, slug) # 200 THEN procs
              ELSE [procs EXCEPT ![p] =
                      [pc |-> "create",
                       user |-> auth[1].user.uid,
                       community |-> CommunityOfSlug(slug)]]
        /\ UNCHANGED applications

\* CommunityApplication.objects.create(user=user, community=community,
\* status='submitted'): the row is inserted as it is.
FinishApply(p) ==
    /\ procs[p].pc = "create"
    /\ Cardinality(applications) < MaxApplications
    /\ applications' =
          applications
          \cup {[uid |-> NewUid(ApplicationRowUids, applications),
                 user |-> procs[p].user,
                 community |-> procs[p].community,
                 status |-> "submitted"]}
    /\ procs' = [procs EXCEPT ![p] = ApplyIdle]

InitApply ==
    /\ community = [u \in Users |-> None]
    /\ permissions = GatePermissions
    /\ visibility = [m \in Missions |-> "public"]
    /\ assignee = [s \in Slots |-> None]
    /\ resp = NoResponse
    /\ held = <<>> /\ asked = None /\ askedAny = <<>> /\ granted = FALSE
    /\ slotGroups = {} /\ slots = {}
    /\ procs = [p \in Procs |-> ApplyIdle]
    /\ applications = {} /\ issued = <<>> /\ gateResp = <<>>
    /\ now = 0 /\ decoded = <<>> /\ registrations = {}

applyFrame ==
    <<permissions, visibility, assignee, resp, permVars, slotGroups, slots,
      issued, gateResp, tokenVars, registrations>>

ApplyBegin ==
    /\ \E p \in Procs, authorization \in ApplyCredentials,
          slug \in CommunitySlugArgs :
          BeginApply(p, authorization, slug)
    /\ UNCHANGED <<community, applyFrame>>

ApplyFinish ==
    /\ \E p \in Procs : FinishApply(p)
    /\ UNCHANGED <<community, applyFrame>>

\* process_community_application, served in one step
ApplyProcess ==
    /\ \E slug \in CommunitySlugArgs, application_uid \in ApplicationRowUids,
          payload_status \in {"accepted", "denied"} :
          process_community_application(Some(generate_jwt("u1")), slug,
                                        application_uid, payload_status)
    /\ UNCHANGED <<procs, applyFrame>>

NextApply == ApplyBegin \/ ApplyFinish \/ ApplyProcess

SpecApply == InitApply /\ [][NextApply]_vars

-----------------------------------------------------------------------------
(* The endpoints that create Permission rows: create_mission_permission of  *)
(* api/routers/mission.py, create_community_permission of                   *)
(* api/routers/community.py and create_user_permission of                   *)
(* api/routers/user.py (SpecGrant)                                          *)

MaxGrantRows == 2

\* valid_types
ValidTypes == {<<"editor">>, Dotted(<<"slotlist", "community">>)}

\* permission_str after the handler has completed a short form:
\* f'mission.{slug}.{permission_type}'
MissionPermissionStr(slug, permission_str) ==
    IF ~startswith(permission_str, <<"mission", Dot>>)
    THEN <<"mission", Dot>> \o slug \o <<Dot>> \o permission_str
    ELSE permission_str

\* The status create_mission_permission answers with.
create_mission_permission_status(auth, slug, userUid, permission_str) ==
    IF auth = Absent THEN 401
    ELSE IF ~SlugExists(slug) THEN 404
    ELSE IF ~is_creator(auth, MissionOfSlug(slug)) /\ ~is_admin(auth) THEN 403
    ELSE IF /\ ~startswith(permission_str, <<"mission", Dot>>)
            /\ permission_str \notin ValidTypes
         THEN 400
    ELSE IF /\ startswith(permission_str, <<"mission", Dot>>)
            /\ ~startswith(permission_str, <<"mission", Dot>> \o slug \o <<Dot>>)
         THEN 400
    ELSE IF userUid \notin Users THEN 404
    ELSE IF \E i \in DOMAIN permissions[userUid] :
               permissions[userUid][i] = MissionPermissionStr(slug, permission_str)
         THEN 400
    ELSE 200

\* create_mission_permission: what it writes.
create_mission_permission(authorization, slug, userUid, permission_str) ==
    permissions' =
        IF create_mission_permission_status(JWTAuth(authorization), slug, userUid,
                                            permission_str) = 200
        THEN [permissions EXCEPT ![userUid] =
                 Append(@, MissionPermissionStr(slug, permission_str))]
        ELSE permissions

ADMIN_COMMUNITY == Dotted(<<"admin", "community">>)

\* The status create_community_permission answers with.
create_community_permission_status(auth, slug, userUid, permission_str) ==
    IF auth = Absent THEN 401
    ELSE IF /\ ~has_permission(auth[1].permissions,
                               Str(CommunityPermission(slug, "leader")))
            /\ ~has_permission(auth[1].permissions, Str(ADMIN_COMMUNITY))
         THEN 403
    ELSE IF ~CommunityFound(slug) THEN 404
    ELSE IF userUid \notin Users THEN 404
    ELSE IF \E i \in DOMAIN permissions[userUid] :
               permissions[userUid][i] = permission_str
         THEN 400
    ELSE 200

\* create_community_permission: what it writes.
create_community_permission(authorization, slug, userUid, permission_str) ==
    permissions' =
        IF create_community_permission_status(JWTAuth(authorization), slug,
                                              userUid, permission_str) = 200
        THEN [permissions EXCEPT ![userUid] = Append(@, permission_str)]
        ELSE permissions

\* payload.permission of the requests followed: the two types in short and
\* in full form, another type in short and in full form, a full form of
\* another mission, and the permissions of an administrator.
GrantArgs ==
    { <<"editor">>,
      Dotted(<<"slotlist", "community">>),
      <<"creator">>,
      Dotted(<<"mission", "foo", "editor">>),
      Dotted(<<"mission", "foo", "creator">>),
      Dotted(<<"mission", "bar", "editor">>),
      WILDCARD,
      ADMIN_SUPERADMIN }

\* What the clients of SpecGrant send: nothing, or the token of a user as
\* the server signs it now.
GrantCredentials == {Absent} \cup {Some(generate_jwt(u)) : u \in Users}

\* u1 leads community alpha and created mission foo; u2 created mission bar.
InitGrant ==
    /\ community = [u \in Users |-> IF u = "u1" THEN "ca" ELSE None]
    /\ permissions = [u \in Users |->
                         IF u = "u1"
                         THEN <<CommunityPermission(<<"alpha">>, "leader")>>
                         ELSE <<>>]
    /\ visibility = [m \in Missions |-> "public"]
    /\ assignee = [s \in Slots |-> None]
    /\ resp = NoResponse
    /\ held = <<>> /\ asked = None /\ askedAny = <<>> /\ granted = FALSE
    /\ slotGroups = {} /\ slots = {} /\ procs = <<>>
    /\ applications = {} /\ issued = <<>> /\ gateResp = <<>>
    /\ now = 0 /\ decoded = <<>> /\ registrations = {}

grantFrame ==
    <<community, visibility, assignee, resp, permVars, orderVars, gateVars,
      tokenVars, registrations>>

CreateMissionPermission ==
    /\ \E authorization \in GrantCredentials, slug \in SlugArgs,
          userUid \in Users, permission_str \in GrantArgs :
          /\ Len(permissions[userUid]) < MaxGrantRows
          /\ create_mission_permission(authorization, slug, userUid,
                                       permission_str)
    /\ UNCHANGED grantFrame

CreateCommunityPermission ==
    /\ \E authorization \in GrantCredentials, slug \in CommunitySlugArgs,
          userUid \in Users, permission_str \in GrantArgs :
          /\ Len(permissions[userUid]) < MaxGrantRows
          /\ create_community_permission(authorization, slug, userUid,
                                         permission_str)
    /\ UNCHANGED grantFrame

GrantUserPermission ==
    /\ \E authorization \in GrantCredentials, user_uid \in Users,
          permission \in GrantArgs :
          /\ Len(permissions[user_uid]) < MaxGrantRows
          /\ create_user_permission(authorization, user_uid, permission)
    /\ UNCHANGED grantFrame

NextGrant ==
    \/ CreateMissionPermission
    \/ CreateCommunityPermission
    \/ GrantUserPermission

SpecGrant == InitGrant /\ [][NextGrant]_vars

-----------------------------------------------------------------------------
(* Slot registrations: register_for_slot, update_slot_registration and
   delete_slot_registration of api/routers/mission.py, next to assign_slot and
   unassign_slot (SpecSlot) *)

\* MissionSlotRegistration.status: its choices and its default.
PENDING == "pending"
CONFIRMED == "confirmed"
REJECTED == "rejected"

\* MissionSlotRegistration.uid: a row is named by the user and the slot it
\* was created for.
RegistrationUid(user, slot) == <<user, slot>>

\* get_object_or_404(MissionSlotRegistration, uid=registration_uid, slot=slot)
RegistrationFound(registration_uid, slot_uid) ==
    \E r \in registrations : r.uid = registration_uid /\ r.slot = slot_uid

RegistrationRow(registration_uid) ==
    CHOOSE r \in registrations : r.uid = registration_uid

\* has_permission(permissions, ['mission.slot.assign', 'admin.*'])
MayAssignSlots(auth) ==
    has_permission(auth[1].permissions,
                   List(<<Dotted(<<"mission", "slot", "assign">>),
                          Dotted(<<"admin", "*">>)>>))

\* The status register_for_slot answers with.
register_for_slot_status(auth, slug, slot_uid) ==
    IF auth = Absent THEN 401
    ELSE IF ~SlugExists(slug) THEN 404
    ELSE IF SlotMission[slot_uid] # MissionOfSlug(slug) THEN 404
    ELSE IF \E r \in registrations :
                r.user = auth[1].user.uid /\ r.slot = slot_uid
         THEN 400
    ELSE 200

\* register_for_slot (behind JWTAuth): what it writes.
register_for_slot(authorization, slug, slot_uid) ==
    LET auth == JWTAuth(authorization)
        status == register_for_slot_status(auth, slug, slot_uid)
    IN  /\ registrations' =
              IF status = 200
              THEN registrations \cup
                     {[uid |-> RegistrationUid(auth[1].user.uid, slot_uid),
                       user |-> auth[1].user.uid, slot |-> slot_uid,
                       status |-> PENDING]}
              ELSE registrations
        /\ UNCHANGED assignee

\* The status update_slot_registration answers with.
update_slot_registration_status(auth, slug, slot_uid, registration_uid, confirmed) ==
    IF auth = Absent THEN 401
    ELSE IF ~SlugExists(slug) THEN 404
    ELSE IF SlotMission[slot_uid] # MissionOfSlug(slug) THEN 404
    ELSE IF ~RegistrationFound(registration_uid, slot_uid) THEN 404
    ELSE IF ~is_creator(auth, MissionOfSlug(slug)) /\ ~MayAssignSlots(auth)
         THEN 403
    ELSE IF /\ confirmed
            /\ assignee[slot_uid] # None
            /\ assignee[slot_uid] # RegistrationRow(registration_uid).user
         THEN 400
    ELSE 200

\* update_slot_registration (behind JWTAuth): what it writes.
update_slot_registration(authorization, slug, slot_uid, registration_uid, confirmed) ==
    LET status == update_slot_registration_status(
                      JWTAuth(authorization), slug, slot_uid,
                      registration_uid, confirmed)
    IN  IF status # 200
        THEN UNCHANGED <<assignee, registrations>>
        ELSE LET registration == RegistrationRow(registration_uid)
             IN  IF confirmed
                 THEN /\ assignee' = [assignee EXCEPT
                                        ![slot_uid] = registration.user]
                      /\ registrations' =
                            (registrations \ {registration}) \cup
                            {[registration EXCEPT !.status = CONFIRMED]}
                 ELSE /\ assignee' =
                            IF /\ registration.status = CONFIRMED
                               /\ assignee[slot_uid] = registration.user
                            THEN [assignee EXCEPT ![slot_uid] = None]
                            ELSE assignee
                      /\ registrations' =
                            (registrations \ {registration}) \cup
                            {[registration EXCEPT !.status = REJECTED]}

\* The status delete_slot_registration answers with.
delete_slot_registration_status(auth, slug, slot_uid, registration_uid) ==
    IF auth = Absent THEN 401
    ELSE IF ~SlugExists(slug) THEN 404
    ELSE IF SlotMission[slot_uid] # MissionOfSlug(slug) THEN 404
    ELSE IF ~RegistrationFound(registration_uid, slot_uid) THEN 404
    ELSE IF /\ RegistrationRow(registration_uid).user # auth[1].user.uid
            /\ ~is_creator(auth, MissionOfSlug(slug))
            /\ ~MayAssignSlots(auth)
         THEN 403
    ELSE 200

\* delete_slot_registration (behind JWTAuth): what it writes.
delete_slot_registration(authorization, slug, slot_uid, registration_uid) ==
    LET status == delete_slot_registration_status(
                      JWTAuth(authorization), slug, slot_uid, registration_uid)
    IN  IF status # 200
        THEN UNCHANGED <<assignee, registrations>>
        ELSE LET registration == RegistrationRow(registration_uid)
             IN  /\ assignee' =
                       IF /\ registration.status = CONFIRMED
                          /\ assignee[slot_uid] = registration.user
                       THEN [assignee EXCEPT ![slot_uid] = None]
                       ELSE assignee
                 /\ registrations' = registrations \ {registration}

\* The slots the registration requests name: an open slot and the blocked
\* slot of mission m1.
SlotArgs == {"s1", "s4"}

RegistrationUids == {RegistrationUid(u, s) : u \in Users, s \in SlotArgs}

\* The Permission rows of u2 SpecSlot starts from.
SlotPermissions == {<<>>, <<Dotted(<<"mission", "slot", "assign">>)>>}

InitSlot ==
    /\ community = [u \in Users |-> IF u = "u2" THEN "ca" ELSE None]
    /\ permissions \in [Users -> SlotPermissions]
    /\ permissions["u1"] = <<>>
    /\ visibility = [m \in Missions |-> "public"]
    /\ assignee = [s \in Slots |-> None]
    /\ resp = NoResponse
    /\ held = <<>> /\ asked = None /\ askedAny = <<>> /\ granted = FALSE
    /\ slotGroups = {} /\ slots = {} /\ procs = <<>>
    /\ applications = {} /\ issued = <<>> /\ gateResp = <<>>
    /\ now = 0 /\ decoded = <<>> /\ registrations = {}

slotFrame ==
    <<community, permissions, visibility, resp, permVars, orderVars, gateVars,
      tokenVars>>

RegisterForSlot ==
    /\ \E authorization \in Credentials, slug \in SlugArgs,
          slot_uid \in SlotArgs :
          register_for_slot(authorization, slug, slot_uid)
    /\ UNCHANGED slotFrame

UpdateSlotRegistration ==
    /\ \E authorization \in Credentials, slug \in SlugArgs,
          slot_uid \in SlotArgs, registration_uid \in RegistrationUids,
          confirmed \in BOOLEAN :
          update_slot_registration(authorization, slug, slot_uid,
                                   registration_uid, confirmed)
    /\ UNCHANGED slotFrame

DeleteSlotRegistration ==
    /\ \E authorization \in Credentials, slug \in SlugArgs,
          slot_uid \in SlotArgs, registration_uid \in RegistrationUids :
          delete_slot_registration(authorization, slug, slot_uid,
                                   registration_uid)
    /\ UNCHANGED slotFrame

NextSlot ==
    \/ RegisterForSlot
    \/ UpdateSlotRegistration
    \/ DeleteSlotRegistration
    \/ AssignSlot
    \/ UnassignSlot

SpecSlot == InitSlot /\ [][NextSlot]_vars

-----------------------------------------------------------------------------
(* The properties checked of the renumbering handlers (SpecOrder) *)

\* The order numbers of a set of rows
OrderNumbers(rows) == {r.order_number : r \in rows}

\* The rows carry each of 0 .. n-1 once, n the number of rows.
Dense(rows) ==
    /\ OrderNumbers(rows) = 0..(Cardinality(rows) - 1)
    /\ Cardinality(OrderNumbers(rows)) = Cardinality(rows)

\* C1: after every create, update or delete of a slot group or a slot, the
\* order numbers of the slot groups of each mission, and of the slots of each
\* slot group, are exactly 0 .. n-1 with no gap and no duplicate, whatever
\* insertAfter the caller supplied (the default 0 included).
C1_DenseOrder ==
    /\ \A mission \in Missions : Dense(GroupsOf(mission))
    /\ \A g \in slotGroups : Dense(SlotsOf(g.uid))

\* The uids of a set of rows
UidsOf(rows) == {r.uid : r \in rows}

\* The row of `rows` with the uid
RowOf(rows, uid) == CHOOSE r \in rows : r.uid = uid

\* Every row of `before` is in `after` with the order number `order` gives
\* it and nothing else changed, and `after` has `added` more rows.
Renumbered(before, after, order(_), added) ==
    /\ Cardinality(after) = Cardinality(before) + added
    /\ Cardinality(UidsOf(after)) = Cardinality(after)
    /\ \A r \in before :
          /\ r.uid \in UidsOf(after)
          /\ RowOf(after, r.uid) = [r EXCEPT !.order_number = order(r)]

\* The effect of an insert with afterIndex = k into the slot groups of a
\* mission: the groups of the mission at k+1 and above move up by one, the
\* new group is at k+1, and no other row changes.
InsertGroupEffect(mission, k) ==
    LET order(r) == IF r.mission = mission /\ r.order_number >= k + 1
                    THEN r.order_number + 1 ELSE r.order_number
    IN  /\ Renumbered(slotGroups, slotGroups', order, 1)
        /\ \E n \in slotGroups' :
              /\ n.uid \notin UidsOf(slotGroups)
              /\ n.mission = mission /\ n.order_number = k + 1
        /\ slots' = slots

\* The same for an insert into the slots of a slot group.
InsertSlotEffect(group_uid, k) ==
    LET order(r) == IF r.slot_group = group_uid /\ r.order_number >= k + 1
                    THEN r.order_number + 1 ELSE r.order_number
    IN  /\ Renumbered(slots, slots', order, 1)
        /\ \E n \in slots' :
              /\ n.uid \notin UidsOf(slots)
              /\ n.slot_group = group_uid /\ n.order_number = k + 1
        /\ slotGroups' = slotGroups

\* The example of the ordering algorithm: four rows at 0, 1, 2, 3 and an
\* insert with afterIndex 1 give 0, 1, 2, 3, 4 with the new row at 2 and the
\* rows formerly at 2 and 3 at 3 and 4.
InsertExample ==
    LET row(u, n) == [uid |-> u, mission |-> "m1", order_number |-> n]
        rows == {row(1, 0), row(2, 1), row(3, 2), row(4, 3)}
    IN  ShiftForInsert(rows, rows, 1 + 1) \cup {row(5, 1 + 1)}
          = {row(1, 0), row(2, 1), row(5, 2), row(3, 3), row(4, 4)}

\* C13: an insert with afterIndex = k adds one to the order number of every
\* row of the scope at k+1 or above, gives the new row k+1, and changes no
\* other order number, in slot groups (create_mission_slot_group) and in
\* slots (create_mission_slots with one slot).
C13_Insert ==
    /\ [][ Cardinality(slotGroups') = Cardinality(slotGroups) + 1 =>
             \A authorization \in OrderCredentials, slug \in MissionSlugs,
                insertAfter \in InsertAfterArgs :
                 ( /\ edit_status(JWTAuth(authorization), slug) = 200
                   /\ create_mission_slot_group(authorization, slug,
                                                insertAfter) )
                 => InsertGroupEffect(MissionOfSlug(slug), insertAfter) ]_vars
    /\ [][ Cardinality(slots') = Cardinality(slots) + 1 =>
             \A authorization \in OrderCredentials, slug \in MissionSlugs,
                slot_data \in SlotData :
                 ( /\ edit_status(JWTAuth(authorization), slug) = 200
                   /\ create_mission_slots(authorization, slug, <<slot_data>>) )
                 => InsertSlotEffect(slot_data.slotGroupUid,
                                     slot_data.insertAfter) ]_vars
    /\ []InsertExample

\* Three slots of one group: the third one created was inserted after index
\* 0, the slot that was at 1 is now at 2 and the slot at 0 stayed.
C13_Witness ==
    \E g \in slotGroups :
        slots = { [uid |-> 1, slot_group |-> g.uid, order_number |-> 0],
                  [uid |-> 2, slot_group |-> g.uid, order_number |-> 2],
                  [uid |-> 3, slot_group |-> g.uid, order_number |-> 1] }

\* The order number a move from old to new gives a row of the scope that is
\* not the moved one: the rows between the two positions move by one toward
\* old, the others stay.
MovedOrder(order_number, old, new) ==
    IF new > old /\ old < order_number /\ order_number <= new
    THEN order_number - 1
    ELSE IF new < old /\ new <= order_number /\ order_number < old
    THEN order_number + 1
    ELSE order_number

\* The effect of moving the slot group uid of the mission to order new.
MoveGroupEffect(mission, uid, new) ==
    LET old == RowOf(slotGroups, uid).order_number
        order(r) == IF r.uid = uid THEN new
                    ELSE IF r.mission = mission
                         THEN MovedOrder(r.order_number, old, new)
                    ELSE r.order_number
    IN  /\ Renumbered(slotGroups, slotGroups', order, 0)
        /\ Dense({g \in slotGroups' : g.mission = mission})
        /\ slots' = slots

\* The effect of moving the slot uid to order new within its slot group.
MoveSlotEffect(uid, new) ==
    LET slot == RowOf(slots, uid)
        order(r) == IF r.uid = uid THEN new
                    ELSE IF r.slot_group = slot.slot_group
                         THEN MovedOrder(r.order_number, slot.order_number, new)
                    ELSE r.order_number
    IN  /\ Renumbered(slots, slots', order, 0)
        /\ Dense({x \in slots' : x.slot_group = slot.slot_group})
        /\ slotGroups' = slotGroups

\* The example of the ordering algorithm: in four rows at 0, 1, 2, 3 the row
\* at 0 moves to 2; the rows formerly at 1 and 2 are at 0 and 1 and the row
\* at 3 stays.
MoveExample ==
    LET row(u, n) == [uid |-> u, mission |-> "m1", order_number |-> n]
        rows == {row(1, 0), row(2, 1), row(3, 2), row(4, 3)}
    IN  ShiftForMove(rows, rows, 1, 0, 2)
          = {row(1, 2), row(2, 0), row(3, 1), row(4, 3)}

\* The order numbers a move request can name
OrderNumberArgs == {a[1] : a \in OrderArgs \ {Absent}}

\* C14: in a dense scope of n rows, a move of the row at oldOrder to another
\* newOrder within 0 .. n-1 gives the row newOrder, moves the rows between the
\* two positions by one toward oldOrder, changes no other row of the scope
\* and no row of another scope, and leaves the scope dense
\* (update_mission_slot_group and update_mission_slot).
C14_Move ==
    /\ [][ (slotGroups' # slotGroups
            /\ UidsOf(slotGroups') = UidsOf(slotGroups)) =>
             \A uid \in UidsOf(slotGroups), new \in OrderNumberArgs :
                 ( /\ Dense(GroupsOf(GroupRow(uid).mission))
                   /\ new < Cardinality(GroupsOf(GroupRow(uid).mission))
                   /\ new # GroupRow(uid).order_number )
                 => \A authorization \in OrderCredentials,
                       slug \in MissionSlugs :
                        ( /\ update_mission_slot_group_status(
                                 JWTAuth(authorization), slug, uid) = 200
                          /\ update_mission_slot_group(authorization, slug,
                                                       uid, Some(new)) )
                        => MoveGroupEffect(MissionOfSlug(slug), uid, new)
         ]_vars
    /\ [][ (slots' # slots /\ UidsOf(slots') = UidsOf(slots)) =>
             \A uid \in UidsOf(slots), new \in OrderNumberArgs :
                 ( /\ Dense(SlotsOf(SlotRow(uid).slot_group))
                   /\ new < Cardinality(SlotsOf(SlotRow(uid).slot_group))
                   /\ new # SlotRow(uid).order_number )
                 => \A authorization \in OrderCredentials,
                       slug \in MissionSlugs :
                        ( /\ update_mission_slot_status(
                                 JWTAuth(authorization), slug, uid) = 200
                          /\ update_mission_slot(authorization, slug, uid,
                                                 Some(new)) )
                        => MoveSlotEffect(uid, new)
         ]_vars
    /\ []MoveExample

\* Three slots of one group, dense, in an order no sequence of inserts at the
\* end gives: the first slot created is last and the two others moved up.
C14_Witness ==
    \E g \in slotGroups :
        slots = { [uid |-> 1, slot_group |-> g.uid, order_number |-> 2],
                  [uid |-> 2, slot_group |-> g.uid, order_number |-> 0],
                  [uid |-> 3, slot_group |-> g.uid, order_number |-> 1] }

\* The effect of deleting the slot group uid of the mission: the group and
\* its slots go, the groups of the mission after it move down by one, no
\* other row changes and the mission's groups are dense.
DeleteGroupEffect(mission, uid) ==
    LET deleted == RowOf(slotGroups, uid)
        order(r) == IF r.mission = mission
                       /\ r.order_number > deleted.order_number
                    THEN r.order_number - 1 ELSE r.order_number
    IN  /\ Renumbered(slotGroups \ {deleted}, slotGroups', order, 0)
        /\ Dense({g \in slotGroups' : g.mission = mission})
        /\ slots' = {x \in slots : x.slot_group # uid}

\* The effect of deleting the slot uid: the slot goes, the slots of its group
\* after it move down by one, no other row changes and the group is dense.
DeleteSlotEffect(uid) ==
    LET deleted == RowOf(slots, uid)
        order(r) == IF r.slot_group = deleted.slot_group
                       /\ r.order_number > deleted.order_number
                    THEN r.order_number - 1 ELSE r.order_number
    IN  /\ Renumbered(slots \ {deleted}, slots', order, 0)
        /\ Dense({x \in slots' : x.slot_group = deleted.slot_group})
        /\ slotGroups' = slotGroups

\* The example of the ordering algorithm: of four rows at 0, 1, 2, 3 the row
\* at 1 is deleted; the rows left are at 0, 1, 2.
DeleteExample ==
    LET row(u, n) == [uid |-> u, mission |-> "m1", order_number |-> n]
        left == {row(1, 0), row(3, 2), row(4, 3)}
    IN  ShiftForDelete(left, left, 1) = {row(1, 0), row(3, 1), row(4, 2)}

\* C15: deleting the row at order d of a dense scope removes it, takes one
\* from the order number of every row of the scope above d, changes no other
\* row, and leaves the scope dense (delete_mission_slot_group and
\* delete_mission_slot).
C15_Delete ==
    /\ [][ Cardinality(slotGroups') < Cardinality(slotGroups) =>
             \A uid \in UidsOf(slotGroups) :
                 Dense(GroupsOf(GroupRow(uid).mission))
                 => \A authorization \in OrderCredentials,
                       slug \in MissionSlugs :
                        ( /\ update_mission_slot_group_status(
                                 JWTAuth(authorization), slug, uid) = 200
                          /\ delete_mission_slot_group(authorization, slug,
                                                       uid) )
                        => DeleteGroupEffect(MissionOfSlug(slug), uid)
         ]_vars
    /\ [][ (Cardinality(slots') < Cardinality(slots)
            /\ slotGroups' = slotGroups) =>
             \A uid \in UidsOf(slots) :
                 Dense(SlotsOf(SlotRow(uid).slot_group))
                 => \A authorization \in OrderCredentials,
                       slug \in MissionSlugs :
                        ( /\ update_mission_slot_status(
                                 JWTAuth(authorization), slug, uid) = 200
                          /\ delete_mission_slot(authorization, slug, uid) )
                        => DeleteSlotEffect(uid)
         ]_vars
    /\ []DeleteExample

\* Two slots are left of three of one dense group: the first one created was
\* deleted, and the two after it are at 0 and 1.
C15_Witness ==
    \E g \in slotGroups :
        slots = { [uid |-> 2, slot_group |-> g.uid, order_number |-> 0],
                  [uid |-> 3, slot_group |-> g.uid, order_number |-> 1] }

\* A create-slots request that is answered with an error: the caller may not
\* edit the mission, or one of its items names a slot group that is not of
\* the mission or a restricted community that does not exist.
CreateSlotsFails(authorization, slug, data) ==
    \/ edit_status(JWTAuth(authorization), slug) # 200
    \/ \E i \in DOMAIN data :
          \/ ~GroupFound(data[i].slotGroupUid, MissionOfSlug(slug))
          \/ CommunityMissing(data[i])

\* C16: a renumbering request that fails part-way leaves every persisted row
\* as it was before the request: a create-slots request that is answered
\* with an error changes no slot and no slot group.
C16_AllOrNothing ==
    [][ slots' # slots =>
          \A authorization \in OrderCredentials, slug \in MissionSlugs,
             data \in SlotDataLists :
              ( /\ CreateSlotsFails(authorization, slug, data)
                /\ create_mission_slots(authorization, slug, data) )
              => UNCHANGED <<slotGroups, slots>> ]_vars

\* No request is in progress.
Quiescent == \A p \in Procs : procs[p].pc = "idle"

\* C17: whatever the interleaving of the read, shift and write steps of two
\* insert requests on the slot groups of one mission, once both are done no
\* two slot groups of the mission have the same order number.
C17_ConcurrentRenumbering ==
    Quiescent =>
        \A mission \in Missions :
            Cardinality(OrderNumbers(GroupsOf(mission)))
              = Cardinality(GroupsOf(mission))

\* C18: a create request whose insertAfter, or an update request whose
\* orderNumber, gives a row an order number outside the valid range of its
\* scope (0 .. n for an insert into n rows, 0 .. n-1 for a move among n rows)
\* is rejected and changes no persisted row.
C18_BoundsRejection ==
    /\ [][ slotGroups' # slotGroups =>
             \A authorization \in OrderCredentials, slug \in MissionSlugs,
                insertAfter \in InsertAfterArgs :
                 ( /\ edit_status(JWTAuth(authorization), slug) = 200
                   /\ insertAfter + 1
                        \notin 0..Cardinality(GroupsOf(MissionOfSlug(slug)))
                   /\ create_mission_slot_group(authorization, slug,
                                                insertAfter) )
                 => UNCHANGED <<slotGroups, slots>> ]_vars
    /\ [][ slotGroups' # slotGroups =>
             \A authorization \in OrderCredentials, slug \in MissionSlugs,
                uid \in UidsOf(slotGroups), new \in OrderNumberArgs :
                 ( /\ update_mission_slot_group_status(JWTAuth(authorization),
                                                       slug, uid) = 200
                   /\ new \notin
                        0..(Cardinality(GroupsOf(MissionOfSlug(slug))) - 1)
                   /\ update_mission_slot_group(authorization, slug, uid,
                                                Some(new)) )
                 => UNCHANGED <<slotGroups, slots>> ]_vars

-----------------------------------------------------------------------------
(* The properties checked of mission visibility (Spec, SpecRead) *)

\* The caller's token verifies under the server's key.
Verified(creds) == creds # Absent /\ creds[1].key = JWT_SECRET

\* The claims of the caller's token
ClaimsOf(creds) == creds[1].payload

\* The caller's token carries a permission that grants perm.
Holds(creds, perm) == has_permission(ClaimsOf(creds).permissions, Str(perm))

\* The caller is the creator of the mission.
IsCreatorOf(creds, m) == ClaimsOf(creds).user.uid = Creator[m]

\* The caller is the creator of the mission or holds admin.mission or
\* mission.<slug>.editor.
Privileged(creds, m) ==
    \/ IsCreatorOf(creds, m)
    \/ Holds(creds, Dotted(<<"admin", "mission">>))
    \/ Holds(creds, Dotted(<<"mission", Slug[m][1], "editor">>))

\* The community the caller's token names, None when it names none.
ClaimedCommunity(creds) ==
    IF ClaimsOf(creds).user.community = Absent THEN None
    ELSE ClaimsOf(creds).user.community[1].uid

\* The token of user u as the server signs it now
TokenOf(u) == Some(generate_jwt(u))

\* C2: for every caller and every mission, the query filter visible_to_user
\* selects the mission exactly when the predicate CanViewMission lets the
\* caller view it.
C2_FilterMatchesPredicate ==
    \A creds \in Credentials :
        LET request == OpenRequest(creds)
            info == get_user_info_from_request(request)
        IN  visible_to_user(info.user_uid, info.community_uid, info.permissions)
              = filter_missions_by_visibility(Missions, request)

\* C3: GET /missions discloses only missions the caller may view, and
\* GET /missions/{slug} and GET /missions/{slug}/slots answer 403, disclosing
\* nothing, for a mission the caller may not view.
C3_ReadsEnforceVisibility ==
    resp.op \in {"list_missions", "get_mission", "get_mission_slots"} =>
        /\ \A m \in resp.missions :
              CanViewMission(OpenRequest(resp.authorization), m)
        /\ ( /\ resp.op \in {"get_mission", "get_mission_slots"}
             /\ resp.mission # None
             /\ ~CanViewMission(OpenRequest(resp.authorization), resp.mission) )
           => resp.status = 403

C5_CommunityMissions ==
    \A creds \in Credentials, m \in Missions :
        visibility[m] = "community" =>
            /\ (Verified(creds) /\ ~Privileged(creds, m)) =>
                  ( CanViewMission(OpenRequest(creds), m)
                      <=> /\ MissionCommunity[m] # None
                          /\ ClaimedCommunity(creds) # None
                          /\ ClaimedCommunity(creds) = MissionCommunity[m] )
            /\ (Verified(creds) /\ IsCreatorOf(creds, m)) =>
                  CanViewMission(OpenRequest(creds), m)
            /\ ~Verified(creds) => ~CanViewMission(OpenRequest(creds), m)

\* Both missions are community missions: the unprivileged member u2 of m1's
\* community views m1, and the creator u1, with no community, views m1 but
\* not m2, which has no community.
C5_Witness ==
    /\ visibility["m1"] = "community" /\ visibility["m2"] = "community"
    /\ community["u2"] = "ca" /\ permissions["u2"] = <<>>
    /\ CanViewMission(OpenRequest(TokenOf("u2")), "m1")
    /\ ClaimedCommunity(TokenOf("u1")) = None
    /\ CanViewMission(OpenRequest(TokenOf("u1")), "m1")
    /\ ~CanViewMission(OpenRequest(TokenOf("u1")), "m2")

\* C6: a private mission is viewable by an authenticated caller who is
\* neither creator, admin nor editor exactly when a slot of that mission is
\* assigned to the caller now: true once the caller is assigned, false again
\* once the caller's last slot of the mission is unassigned.
C6_PrivateFollowsAssignment ==
    \A creds \in Credentials, m \in Missions :
        (visibility[m] = "private" /\ Verified(creds) /\ ~Privileged(creds, m))
            => ( CanViewMission(OpenRequest(creds), m)
                   <=> \E s \in Slots : /\ SlotMission[s] = m
                                        /\ assignee[s] = ClaimsOf(creds).user.uid )

\* Both missions are private: the unprivileged u2 holds a slot of m1 and
\* views it, and u1 holds a slot of m1 only and does not view m2.
C6_Witness ==
    /\ visibility["m1"] = "private" /\ visibility["m2"] = "private"
    /\ permissions["u2"] = <<>>
    /\ assignee["s1"] = "u2" /\ assignee["s2"] = "u1" /\ assignee["s3"] = None
    /\ CanViewMission(OpenRequest(TokenOf("u2")), "m1")
    /\ ~CanViewMission(OpenRequest(TokenOf("u1")), "m2")

\* C7: a public mission is viewable by every caller, and a caller with no
\* verified identity (no token, or a token that does not verify) views
\* public missions only.
C7_PublicAndAnonymous ==
    \A creds \in Credentials, m \in Missions :
        /\ visibility[m] = "public" => CanViewMission(OpenRequest(creds), m)
        /\ (~Verified(creds) /\ CanViewMission(OpenRequest(creds), m))
              => visibility[m] = "public"

\* m2 is public and m1 is not: the caller with no token and the caller whose
\* token does not verify view m2 and are refused m1.
C7_Witness ==
    /\ visibility["m1"] # "public" /\ visibility["m2"] = "public"
    /\ CanViewMission(OpenRequest(Absent), "m2")
    /\ CanViewMission(OpenRequest(Some(ForgedToken)), "m2")
    /\ ~CanViewMission(OpenRequest(Absent), "m1")
    /\ ~CanViewMission(OpenRequest(Some(ForgedToken)), "m1")

\* The last request was an update of an existing mission by an authenticated
\* caller who is neither its creator nor a holder of admin.mission.
UpdateByOutsider ==
    /\ resp.op = "update_mission"
    /\ resp.mission # None
    /\ Verified(resp.authorization)
    /\ ~IsCreatorOf(resp.authorization, resp.mission)
    /\ ~Holds(resp.authorization, Dotted(<<"admin", "mission">>))

\* C8: update_mission changes a mission only for its creator or a holder of
\* admin.mission; any other authenticated caller, an editor who may view the
\* mission included, is answered 403 and the mission is left as it was.
C8_UpdateAuthorization ==
    /\ [](UpdateByOutsider => resp.status = 403)
    /\ [][ (resp'.op = "update_mission" /\ resp'.status # 200)
              => visibility' = visibility ]_vars
    /\ [][ visibility' # visibility
              => /\ resp'.op = "update_mission" /\ resp'.status = 200
                 /\ Verified(resp'.authorization)
                 /\ \/ IsCreatorOf(resp'.authorization, resp'.mission)
                    \/ Holds(resp'.authorization, Dotted(<<"admin", "mission">>))
                 /\ \A m \in Missions \ {resp'.mission} :
                       visibility'[m] = visibility[m] ]_vars

\* An editor of a hidden mission, who may view it, asked to update it and was
\* answered 403.
C8_Witness ==
    /\ UpdateByOutsider
    /\ resp.status = 403
    /\ visibility[resp.mission] = "hidden"
    /\ Holds(resp.authorization,
             Dotted(<<"mission", Slug[resp.mission][1], "editor">>))
    /\ CanViewMission(OpenRequest(resp.authorization), resp.mission)

-----------------------------------------------------------------------------
(* The properties checked of the permission engine (SpecPerm) *)

\* The walk of the claim: at the level reached after matching the leading
\* segments of the target, the tree has the key '*'.
RECURSIVE WildcardReached(_, _)
WildcardReached(tree, target_parts) ==
    IF target_parts = <<>> \/ tree = <<>> THEN FALSE
    ELSE \/ HasKey(tree, WILDCARD)
         \/ /\ HasKey(tree, Head(target_parts))
            /\ WildcardReached(tree[KeyIndex(tree, Head(target_parts))].sub,
                               Tail(target_parts))

\* C9: when the tree has a '*' key at the level reached after matching zero
\* or more leading segments of the target, find_permission returns True,
\* whatever the remaining segments of the target are.
C9_WildcardPrecedence ==
    asked # None =>
        ( WildcardReached(parse_permissions(held), split(lower(asked)))
            => find_permission_str(parse_permissions(held), asked) )

\* Every reordering of a list of permission strings
Reorderings(list) ==
    IF list = <<>> THEN {<<>>}
    ELSE { [i \in DOMAIN list |-> list[f[i]]] : f \in Permutations(DOMAIN list) }

\* C10: for a fixed set of permission strings and a fixed target, the answer
\* of has_permission does not depend on the order of the strings in the list.
C10_OrderIndependence ==
    asked # None =>
        \A reordered \in Reorderings(held) :
            has_permission(reordered, Str(asked)) = granted

\* The list holds the string '*' or the string 'admin.superadmin'.
HoldsSuperuser(list) ==
    \E i \in DOMAIN list : list[i] \in {Dotted(<<"*">>),
                                        Dotted(<<"admin", "superadmin">>)}

\* C11: a permission list that contains '*' or 'admin.superadmin' is granted
\* every target, a single string or a list of alternatives (the empty list
\* included).
C11_SuperuserShortcut ==
    HoldsSuperuser(held) =>
        /\ \A target \in Targets : has_permission(held, Str(target))
        /\ has_permission(held, List(<<>>))
        /\ (asked # None \/ askedAny # <<>>) => granted

\* A list holding 'admin.superadmin' next to an ordinary permission was asked
\* for two alternatives none of its strings names, and was granted them.
C11_Witness ==
    /\ held = <<Dotted(<<"mission", "foo", "bar">>),
                Dotted(<<"admin", "superadmin">>)>>
    /\ askedAny = <<Dotted(<<"mission", "bar", "editor">>),
                    Dotted(<<"admin", "mission">>)>>
    /\ granted

\* The segments of a permission string as the engine reads them
PartsOf(perm) == split(lower(perm))

\* The string whose segments are parts: '.'.join(parts)
RECURSIVE JoinParts(_)
JoinParts(parts) ==
    IF parts = <<>> THEN <<>>
    ELSE IF Len(parts) = 1 THEN parts[1]
    ELSE parts[1] \o <<Dot>> \o JoinParts(Tail(parts))

\* p is a leading part of parts (parts itself included).
IsPrefix(p, parts) ==
    Len(p) <= Len(parts) /\ SubSeq(parts, 1, Len(p)) = p

\* The list has an entry that is the target or lies below it.
OnPath(list, target) ==
    \E i \in DOMAIN list : IsPrefix(PartsOf(target), PartsOf(list[i]))

\* The list grants the target by a wildcard on the target's path or by an
\* entry on the target's path.
GrantsByEntry(list, target) ==
    \/ WildcardReached(parse_permissions(list), PartsOf(target))
    \/ OnPath(list, target)

\* C12: a list that holds 'a.b.c' is granted every outer prefix of it ('a',
\* 'a.b', 'a.b.c'), and is refused a target such as 'a.b.d' that no entry
\* grants: no wildcard on the target's path, no entry on the target's path,
\* and no superadmin.
C12_PrefixMatch ==
    /\ \A i \in DOMAIN held :
          \A k \in 1..Len(PartsOf(held[i])) :
              has_permission(held,
                             Str(JoinParts(SubSeq(PartsOf(held[i]), 1, k))))
    /\ (asked # None /\ OnPath(held, asked)) => granted
    /\ ( /\ asked # None
         /\ ~GrantsByEntry(held, asked)
         /\ ~GrantsByEntry(held, Dotted(<<"admin", "superadmin">>)) )
       => ~granted

\* A list holding 'mission.foo.bar' is granted 'mission.foo' and was asked
\* for 'mission.foo.baz' and refused.
C12_Witness ==
    /\ \E i \in DOMAIN held : held[i] = Dotted(<<"mission", "foo", "bar">>)
    /\ has_permission(held, Str(Dotted(<<"mission", "foo">>)))
    /\ asked # None
    /\ asked = Dotted(<<"mission", "foo", "baz">>)
    /\ ~granted

-----------------------------------------------------------------------------
(* The properties checked of the community gate (SpecGate) *)

SubmittedOf(uid) ==
    {a \in applications : a.user = uid /\ a.status = "submitted"}

\* C19: has_approved_community(uid) allows exactly the uids of a user who has
\* a community, and then gives no reason; it refuses every other uid, with
\* 'User not found' when no user has the uid, else with the pending message
\* when the user has at least one submitted application (to any community),
\* else with the must-be-a-member message, also when the user's only
\* applications are approved or denied.
C19_CommunityGateDecision ==
    \A uid \in GateUids :
        LET decision == has_approved_community(uid)
            exists == uid \in Users
        IN  /\ decision.allowed <=> (exists /\ community[uid] # None)
            /\ decision.allowed => decision.reason = None
            /\ (~decision.allowed /\ ~exists) => decision.reason = USER_NOT_FOUND
            /\ (~decision.allowed /\ exists /\ SubmittedOf(uid) # {})
                  => decision.reason = PENDING_APPLICATION
            /\ (~decision.allowed /\ exists /\ SubmittedOf(uid) = {})
                  => decision.reason = MUST_BE_MEMBER

\* u2 has no community and applications that are all approved or denied, one
\* of them approved, and the gate told its client it must be a member.
C19_Witness ==
    /\ community["u2"] = None
    /\ SubmittedOf("u2") = {}
    /\ \E a \in applications : a.user = "u2" /\ a.status = "approved"
    /\ \E a \in applications : a.user = "u2" /\ a.status = "denied"
    /\ issued["u2"] # Absent
    /\ gateResp.authorization = issued["u2"]
    /\ gateResp.error = MUST_BE_MEMBER
    /\ has_approved_community("u2").reason = MUST_BE_MEMBER

GatedEndpoints ==
    {"get_community_missions", "get_community_permissions",
     "get_community_repositories", "get_community_servers"}

\* The token of the request verifies, names a uid, and the user of that uid
\* has a community in the rows as they are now.
VerifiedMember(authorization) ==
    /\ authorization # Absent
    /\ authorization[1].key = JWT_SECRET
    /\ "uid" \in DOMAIN authorization[1].payload.user
    /\ authorization[1].payload.user.uid \in Users
    /\ community[authorization[1].payload.user.uid] # None

\* C20: a request to a gated endpoint (community missions, permissions,
\* repositories, servers) enters the body of its handler only if its token
\* verifies and the user the token names has a community when the request is
\* made; a missing or invalid token, a payload without a user uid, and a user
\* without a community are each answered 401 without the body being entered.
C20_GatedAccess ==
    [][ gateResp' # gateResp =>
           /\ gateResp'.op \in GatedEndpoints
           /\ gateResp'.ran <=> VerifiedMember(gateResp'.authorization)
           /\ ~gateResp'.ran <=> gateResp'.status = 401 ]_vars

\* A token that verifies and claims a community was answered 401 without the
\* body being entered, the user having no community when the request came.
C20_Witness ==
    /\ gateResp.op \in GatedEndpoints
    /\ gateResp.authorization # Absent
    /\ decode_jwt(gateResp.authorization[1]) # Absent
    /\ gateResp.authorization[1].payload.user.community # Absent
    /\ gateResp.status = 401
    /\ ~gateResp.ran
    /\ gateResp.error = MUST_BE_MEMBER

-----------------------------------------------------------------------------
(* The properties checked of the gate on the mission list (SpecRead) *)

\* C21: GET /missions answers 401, and discloses no mission, to a request
\* without a token and to a request whose token is of a user without a
\* community; it answers with the list only to a request whose token verifies
\* and is of a user who has a community.
C21_MissionListGated ==
    resp.op = "list_missions" =>
        IF VerifiedMember(resp.authorization)
        THEN resp.status = 200
        ELSE resp.status = 401 /\ resp.missions = {}

-----------------------------------------------------------------------------
(* The properties checked of the tokens (SpecToken) *)

\* The string is a token, signed with the server's key and algorithm.
Signed(token) ==
    /\ "key" \in DOMAIN token
    /\ token.key = JWT_SECRET
    /\ token.alg = JWT_ALGORITHM

\* The token names the configured issuer and audience.
IssuedForHere(token) ==
    /\ "iss" \in DOMAIN token.payload
    /\ token.payload.iss = JWT_ISSUER
    /\ "aud" \in DOMAIN token.payload
    /\ token.payload.aud = JWT_AUDIENCE

\* The token carries an expiry, and the expiry has passed at time t.
Expired(token, t) == "exp" \in DOMAIN token.payload /\ token.payload.exp <= t

\* The token carries an expiry that has not passed at time t.
Unexpired(token, t) == "exp" \in DOMAIN token.payload /\ token.payload.exp > t

\* The answer of decode_jwt is the full claims of the token or None.
AllOrNone(token, result) ==
    \/ result = Absent
    \/ "key" \in DOMAIN token /\ result = Some(token.payload)

IssuedNow(u) == issued'[u] # issued[u]

\* C23: decode_jwt(generate_jwt(user)), evaluated before the expiry of the
\* token, gives claims whose user uid and subject are the uid of the user and
\* whose permissions are the permission rows the user had when the token was
\* issued: they are the rows of the user at the step of issuance, and no
\* later step (a grant, a revocation, the passing of time short of the
\* expiry) changes what decode_jwt gives for the token.
C23_TokenRoundTrip ==
    /\ [][ \A u \in TokenHolders :
              IssuedNow(u) =>
                 LET claims == decode_jwt(issued'[u][1])
                 IN  /\ claims # Absent
                     /\ claims[1].user.uid = u
                     /\ claims[1].sub = u
                     /\ claims[1].permissions = permissions[u] ]_vars
    /\ [][ \A u \in TokenHolders :
              ( /\ issued[u] # Absent
                /\ ~IssuedNow(u)
                /\ Unexpired(issued[u][1], now') )
              => /\ decode_jwt(issued[u][1]) # Absent
                 /\ decode_jwt(issued[u][1])' = decode_jwt(issued[u][1]) ]_vars

\* The token of u2 was decoded before its expiry, after a permission was
\* granted to u2 that the token does not hold, and the claims name u2 and
\* hold the permissions of the token.
C23_Witness ==
    /\ issued["u2"] # Absent
    /\ decoded.token = issued["u2"]
    /\ decoded.at = now
    /\ Unexpired(issued["u2"][1], now)
    /\ decoded.result # Absent
    /\ decoded.result[1].user.uid = "u2"
    /\ decoded.result[1].sub = "u2"
    /\ decoded.result[1].permissions # permissions["u2"]
    /\ permissions["u2"] # <<>>

-----------------------------------------------------------------------------
(* The properties checked of the applications (SpecApply, SpecGate) *)

ApplicationsOf(u, c) == {a \in applications : a.user = u /\ a.community = c}

C25_ApplicationLifecycle ==
    [][ \A after \in applications' :
           /\ (\A before \in applications : before.uid # after.uid)
                 => after.status = "submitted"
           /\ \A before \in applications :
                 (before.uid = after.uid /\ before.status # after.status)
                 => /\ before.status = "submitted"
                    /\ after.status \in {"approved", "denied"} ]_vars

-----------------------------------------------------------------------------
(* The properties checked of the permission endpoints (SpecGrant) *)

\* mission.<slug>.<role> for the roles editor and slotlist.community
MissionRolePermissions(slug) ==
    {<<"mission", Dot>> \o slug \o <<Dot>> \o role : role \in ValidTypes}

\* The request passes the checks of the mission and of the caller.
MayGrantOnMission(authorization, slug) ==
    /\ JWTAuth(authorization) # Absent
    /\ SlugExists(slug)
    /\ \/ is_creator(JWTAuth(authorization), MissionOfSlug(slug))
       \/ is_admin(JWTAuth(authorization))

\* C26: every permission the permission endpoint of a mission creates is
\* mission.<slug>.<role> for the slug of that mission and a role among editor
\* and slotlist.community; a request that names another role, in short or in
\* full form, or the slug of another mission is answered 400 and creates no
\* permission.
C26_MissionPermissionFormat ==
    [][ \A authorization \in GrantCredentials, slug \in SlugArgs,
           userUid \in Users, permission_str \in GrantArgs :
           ( /\ MayGrantOnMission(authorization, slug)
             /\ create_mission_permission(authorization, slug, userUid,
                                          permission_str) )
           => /\ permissions' # permissions =>
                    \E granted_str \in MissionRolePermissions(slug) :
                       permissions' = [permissions EXCEPT ![userUid] =
                                                              Append(@, granted_str)]
              /\ ( /\ permission_str \notin ValidTypes
                   /\ permission_str \notin MissionRolePermissions(slug) )
                 => /\ create_mission_permission_status(
                          JWTAuth(authorization), slug, userUid, permission_str) = 400
                    /\ permissions' = permissions ]_vars

\* The string is '*', 'admin.superadmin' or another admin.* permission.
IsAdminPermission(permission_str) ==
    \/ permission_str = WILDCARD
    \/ startswith(permission_str, <<"admin", Dot>>)

HoldsAdminPermission(u) ==
    \E i \in DOMAIN permissions[u] : IsAdminPermission(permissions[u][i])

\* C27: no user holds '*' or an admin.* permission at first, and every caller
\* sends the token of its rows as they are, so that every request is made by
\* a caller who holds neither: no request to a permission endpoint leaves a
\* user holding '*', 'admin.superadmin' or another admin.* permission.
C27_NoPrivilegeEscalation ==
    \A u \in Users : ~HoldsAdminPermission(u)

-----------------------------------------------------------------------------
(* The properties checked of the slot registrations (SpecSlot) *)

ConfirmedOf(slot) ==
    {r \in registrations : r.slot = slot /\ r.status = CONFIRMED}

\* C28: after any sequence of register, confirm or reject, delete
\* registration, assign (forced or not) and unassign requests, every
\* registration whose status is confirmed is of the user who is the assignee
\* of its slot, and no slot has more than one confirmed registration.
C28_ConfirmedMatchesAssignment ==
    /\ \A r \in registrations :
          r.status = CONFIRMED => assignee[r.slot] = r.user
    /\ \A s \in Slots : Cardinality(ConfirmedOf(s)) <= 1

\* C29: no request gives a slot an assignee while the slot is blocked,
\* neither assign_slot (forced or not) nor the confirmation of a registration
\* for the slot.
C29_BlockedNotAssignable ==
    [][\A s \in Slots :
          (SlotBlocked[s] /\ assignee'[s] # assignee[s])
              => assignee'[s] = None]_vars

-----------------------------------------------------------------------------
(* The properties checked of the gate after a removal (SpecGate) *)

\* The token verifies, has not expired, is of user u and names a community
\* in its claims: it was issued while u was a member.
MemberTokenOf(authorization, u) ==
    /\ authorization # Absent
    /\ decode_jwt(authorization[1]) # Absent
    /\ UserUidOf(authorization[1].payload) = u
    /\ "community" \in DOMAIN authorization[1].payload.user
    /\ authorization[1].payload.user.community # Absent

\* C30: remove_community_member answering 200 leaves the member without a
\* community, and from then on, for as long as the user has no community,
\* every request of that user to a gated endpoint is answered 401 without
\* the body being entered, also when it carries an unexpired token that was
\* issued while the user was a member and still names the community.
C30_GateFollowsLiveMembership ==
    /\ [][ community' # community =>
              \A authorization \in ManagerCredentials,
                 slug \in CommunitySlugArgs, member_uid \in Users :
                 ( /\ remove_community_member_status(
                          JWTAuth(authorization), slug, member_uid) = 200
                   /\ remove_community_member(authorization, slug, member_uid) )
                     => community'[member_uid] = None ]_vars
    /\ [][ \A u \in Users :
              ( /\ gateResp' # gateResp
                /\ MemberTokenOf(gateResp'.authorization, u)
                /\ community[u] = None )
                  => /\ gateResp'.status = 401
                     /\ ~gateResp'.ran ]_vars

\* u2 was approved into community ca and signed in as a member, was then
\* removed, and its next request to a gated endpoint, carrying the token of
\* its time as a member, was answered 401.
C30_Witness ==
    /\ \E a \in applications : a.user = "u2" /\ a.status = "approved"
    /\ community["u2"] = None
    /\ issued["u2"] # Absent
    /\ MemberTokenOf(issued["u2"], "u2")
    /\ issued["u2"][1].payload.user.community = Some([uid |-> "ca"])
    /\ gateResp.op \in GatedEndpoints
    /\ gateResp.authorization = issued["u2"]
    /\ gateResp.status = 401
    /\ ~gateResp.ran

=============================================================================
